---- MODULE Spec2Model ----
(***************************************************************************)
(* Bank statement parser (bank_parser package and the upload handler of    *)
(* app.py): format detection, per-format extraction, the field normalizers *)
(* and the orchestrator, as state machines.                                *)
(*                                                                         *)
(* Texts.  A text (cell text, sheet name, folder, file name) is a phrase   *)
(* id: the transliteration of the real string.  MarkersOf(p) is the set of *)
(* markers of the source that the real string contains, computed on the    *)
(* real strings with Python's `in`:                                        *)
(*    "m"     m in str(x).lower()                                          *)
(*    "cs:m"  m in str(x)           (case-sensitive test)                  *)
(*    "up:m"  m in str(x).upper()                                          *)
(*    "=m"    str(x).lower().strip() == m                                  *)
(* A joined row text (' '.join of the truthy cells) contains a marker iff  *)
(* one of its truthy cells does.                                           *)
(*                                                                         *)
(* Numbers.  Scores are in hundredths (0.3 is 30); amounts are in          *)
(* hundredths of the currency unit, the resolution round(x, 2) keeps.      *)
(***************************************************************************)
EXTENDS Integers, Sequences, FiniteSets, TLC

VARIABLES
  \* detect_parser applied to one file: the file, and what the call returned
  dFile, dOut,
  \* a normalizer or an extractor applied to one input: the arguments of the
  \* call, and what it returned
  arg, ret,
  \* the orchestrator: the entries of the data directory in the order they
  \* are visited, the way it was started ("batch": process_all, "single":
  \* --file), where it stands, the entry the loop is at, and the run
  files, mode, pc, cursor, run,
  \* process_all's all_results, total_files and success_count, the results
  \* of the previous run, and the output files written
  all_results, previous, total_files, success_count, saved,
  \* the state of the process the parsers share: the registry and the
  \* BANK_NAME attribute of each parser class
  PARSER_REGISTRY, BANK_NAME,
  \* the parse() calls made in this run, and whether an exception has left
  \* process_file
  calls, escaped,
  \* process_uploaded_file: the upload and the folder hint it is called with,
  \* where the call stands, the temporary file ("none": not created, "on
  \* disk", "unlinked"), whether os.unlink has been called, and `result`
  uploaded_file, folder_hint, upload_pc, tmp_file, unlink_called, upload_result

harness == <<dFile, dOut, arg, ret>>

batch ==
  <<files, mode, pc, cursor, run, all_results, previous, total_files, success_count, saved,
    PARSER_REGISTRY, BANK_NAME, calls, escaped>>

upload == <<uploaded_file, folder_hint, upload_pc, tmp_file, unlink_called, upload_result>>

vars == <<harness, batch, upload>>

\* the value of a variable that a specification does not use
Idle == [set |-> FALSE]

-----------------------------------------------------------------------------
(* Bounds of the model *)

MaxSheets == 2

-----------------------------------------------------------------------------
(* Optional values: Python None / a value *)

None == [some |-> FALSE, v |-> 0]

Some(x) == [some |-> TRUE, v |-> x]

\* None where the value would be a string
NoText == [some |-> FALSE, v |-> <<>>]

-----------------------------------------------------------------------------
(* Strings as characters.  Where a function looks inside a string (dates,  *)
(* amounts, identification numbers) the string is a sequence of tokens: a  *)
(* maximal run of decimal digits, Digits(<<d1, ..., dn>>), or one other    *)
(* character, Ch(c); the characters outside ASCII are written "nbsp",      *)
(* "tenge" and "euro".  TokensOf(p) below gives the tokens of a phrase.    *)

Digits(ds) == [t |-> "digits", d |-> ds]

Ch(c) == [t |-> c, d |-> <<>>]

\* int(ds) of a run of digits
RECURSIVE Value(_)
Value(ds) ==
  IF ds = <<>> THEN 0 ELSE 10 * Value(SubSeq(ds, 1, Len(ds) - 1)) + ds[Len(ds)]

RECURSIVE Pow10(_)
Pow10(n) == IF n = 0 THEN 1 ELSE 10 * Pow10(n - 1)

\* the decimal digits of v in a field of width n, zero padded: '%0nd' % v
Pad(v, n) == [i \in 1..n |-> (v \div Pow10(n - i)) % 10]

\* the number of decimal digits of v >= 0
RECURSIVE Width(_)
Width(v) == IF v < 10 THEN 1 ELSE 1 + Width(v \div 10)

\* the blank and the no-break space (written "nbsp")
Whitespace == {" ", "nbsp"}

\* str.strip()
RECURSIVE lstrip(_)
lstrip(s) == IF s # <<>> /\ s[1].t \in Whitespace THEN lstrip(Tail(s)) ELSE s

RECURSIVE rstrip(_)
rstrip(s) ==
  IF s # <<>> /\ s[Len(s)].t \in Whitespace THEN rstrip(SubSeq(s, 1, Len(s) - 1)) ELSE s

strip(s) == rstrip(lstrip(s))

-----------------------------------------------------------------------------
(* Phrase tables *)

Phrases ==
  { "Data i vremya operacii",
    "Valyuta operacii",
    "Vidy operacii (kategoriya dokumenta)",
    "Vid operacii (KD)",
    "Naimenovanie SDP",
    "Summa v valyute ee provedeniya",
    "Summa v tenge",
    "Naimenovanie/FIO platel'shchika",
    "IIN/BIN platel'shchika",
    "Rezidenstvo platel'shchika",
    "Bank platel'shchika",
    "Rezidentstvo platel'shchika",
    "Rezidentstvo poluchatelya",
    "Nomer scheta platel'shchika",
    "Naimenovanie/FIO poluchatelya",
    "IIN/BIN poluchatelya",
    "Rezidenstvo poluchatelya",
    "Bank poluchatelya",
    "Nomer scheta poluchatelya",
    "Kod naznacheniya platezha",
    "Naznachenie platezha",
    "Summa v valyute ee provedeniya po kreditu",
    "Summa v valyute ee provedeniya po debetu",
    "Summa v tenge po kreditu",
    "Summa v tenge po debetu",
    "Data",
    "Data operacii",
    "Summa",
    "Valyuta",
    "Napravlenie",
    "Platel'shchik",
    "Poluchatel'",
    "No p/p",
    "Naimenovanie kompanii/FIO",
    "BIN/IIN",
    "Summy",
    "Tip operacii",
    "Debetovyj oborot",
    "Kreditovyj oborot",
    "Terminal_ID",
    "Kontragent",
    "Date",
    "Debit",
    "Counterparty",
    "Acme LLC",
    "Summa operacii",
    "Otpravitel'",
    "Kuenih / Data",
    "AO Kaspi Bank",
    "Vhodyashchij ostatok: 0,00",
    "Statistika po terminalam",
    "BIK HSBKKZKX",
    "Delta Bank",
    "Alatau City Bank",
    "AO Cesnabank, SWIFT TSESKZKA",
    "DO AO Bank VTB (Kazahstan)",
    "Klient, IIN 880101300123",
    "Vhodyashchie platezhi",
    "Ishodyashchie platezhi",
    "2023-01-05",
    "Itogo",
    "Ishodyashchij ostatok",
    "Zachislenie na schet",
    "Spisanie so scheta",
    "Ishodyashchij",
    "Vhodyashchij",
    "Pokupka",
    "Kredit",
    "Debet",
    "n/a",
    "-500,00",
    "1 234,56",
    "Prihod",
    "Rashod",
    "CR",
    "DR",
    "Credit",
    "Income",
    "Expense",
    "Prihod/Rashod",
    "Debet/Kredit",
    "Vyhod",
    "Perevod",
    "Vozvrat perevoda",
    "KZ123456789012345678",
    "KZ98765432109876543210AB",
    "12",
    "Popolnenie scheta",
    "Vydacha nalichnyh",
    "Sheet1",
    "Vhodyashchie",
    "Ishodyashchie",
    "KZ72551N129228750KZT",
    "",
    "Raznoe",
    "Arhiv",
    "Delta Bank vypiski",
    "Narodnyj sberegatel'nyj bank",
    "Kaspi",
    "Alatau",
    "VTB",
    "Cesnabank",
    "vypiska.xlsx",
    "statement_standard_KZ123456789012345678.xlsx",
    "report.csv",
    "old.xls",
    "REPORT.XLSX",
    "~$vypiska.xlsx",
    "empty.xlsx" }

MarkersOf(p) ==
  CASE p = "Data i vremya operacii" -> {"data i vremya operacii", "data i vremya", "operacii", "data", "operac"}
    [] p = "Valyuta operacii" -> {"valyuta operacii", "valyuta", "operacii", "operac", "valyut"}
    [] p = "Vidy operacii (kategoriya dokumenta)" -> {"vidy operacii", "kategoriya dokumenta", "kategoriya", "operacii", "operac"}
    [] p = "Vid operacii (KD)" -> {"vid operacii (kd)", "vid operacii", "operacii", "operac"}
    [] p = "Naimenovanie SDP" -> {"naimenovanie sdp", "naimenovanie"}
    [] p = "Summa v valyute ee provedeniya" -> {"summa v valyute", "summa", "valyute", "valyut", "summ"}
    [] p = "Summa v tenge" -> {"summa v tenge", "summa", "tenge", "summ"}
    [] p = "Naimenovanie/FIO platel'shchika" -> {"platel'shchik", "naimenovanie", "fio"}
    [] p = "IIN/BIN platel'shchika" -> {"platel'shchik", "bin", "iin", "cs:IIN"}
    [] p = "Rezidenstvo platel'shchika" -> {"platel'shchik", "rezidenstvo"}
    [] p = "Bank platel'shchika" -> {"platel'shchik", "bank"}
    [] p = "Rezidentstvo platel'shchika" -> {"platel'shchik"}
    [] p = "Rezidentstvo poluchatelya" -> {"poluchatel"}
    [] p = "Nomer scheta platel'shchika" -> {"platel'shchik", "schet"}
    [] p = "Naimenovanie/FIO poluchatelya" -> {"poluchatel", "naimenovanie", "fio"}
    [] p = "IIN/BIN poluchatelya" -> {"poluchatel", "bin", "iin", "cs:IIN"}
    [] p = "Rezidenstvo poluchatelya" -> {"poluchatel", "rezidenstvo"}
    [] p = "Bank poluchatelya" -> {"poluchatel", "bank"}
    [] p = "Nomer scheta poluchatelya" -> {"poluchatel", "schet"}
    [] p = "Kod naznacheniya platezha" -> {}
    [] p = "Naznachenie platezha" -> {"naznachenie"}
    [] p = "Summa v valyute ee provedeniya po kreditu" -> {"summa v valyute", "summa", "po kreditu", "valyute", "valyut", "kredit", "summ"}
    [] p = "Summa v valyute ee provedeniya po debetu" -> {"summa v valyute", "summa", "po debetu", "valyute", "valyut", "debet", "summ"}
    [] p = "Summa v tenge po kreditu" -> {"summa v tenge", "summa", "po kreditu", "tenge", "kredit", "summ"}
    [] p = "Summa v tenge po debetu" -> {"summa v tenge", "summa", "po debetu", "tenge", "debet", "summ"}
    [] p = "Data" -> {"data", "=data"}
    [] p = "Data operacii" -> {"operacii", "data", "operac", "data oper", "data operacii", "=data operacii"}
    [] p = "Summa" -> {"summa", "summ"}
    [] p = "Valyuta" -> {"valyuta", "valyut", "=valyuta"}
    [] p = "Napravlenie" -> {"napravlen"}
    [] p = "Platel'shchik" -> {"platel'shchik"}
    [] p = "Poluchatel'" -> {"poluchatel", "poluchatel'"}
    [] p = "No p/p" -> {"No p/p", "No"}
    [] p = "Naimenovanie kompanii/FIO" -> {"naimenovanie", "naimenovanie kompanii", "fio"}
    [] p = "BIN/IIN" -> {"bin", "iin", "cs:IIN"}
    [] p = "Summy" -> {"summ"}
    [] p = "Tip operacii" -> {"operacii", "operac", "tip operacii"}
    [] p = "Debetovyj oborot" -> {"debet", "oborot", "debetovyj oborot"}
    [] p = "Kreditovyj oborot" -> {"kredit", "oborot", "kreditovyj oborot"}
    [] p = "Terminal_ID" -> {"terminal_id"}
    [] p = "Kontragent" -> {"kontragent"}
    [] p = "Date" -> {}
    [] p = "Debit" -> {}
    [] p = "Counterparty" -> {}
    [] p = "Acme LLC" -> {}
    [] p = "Summa operacii" -> {"summa", "operacii", "operac", "summa operacii", "summ"}
    [] p = "Otpravitel'" -> {"otpravitel'"}
    [] p = "Kuenih / Data" -> {"data", "kuenih / data"}
    [] p = "AO Kaspi Bank" -> {"kaspi", "cs:Kaspi Bank"}
    [] p = "Vhodyashchij ostatok: 0,00" -> {"vhodyashch", "vhodyashchij", "ostatok", "vhodyashchij ostatok", "vh", "vhod"}
    [] p = "Statistika po terminalam" -> {"statistika"}
    [] p = "BIK HSBKKZKX" -> {"cs:HSBKKZKX"}
    [] p = "Delta Bank" -> {"delta bank"}
    [] p = "Alatau City Bank" -> {"alatau", "alatau city"}
    [] p = "AO Cesnabank, SWIFT TSESKZKA" -> {"bank", "cesnabank", "up:CESNABANK", "up:TSESKZKA"}
    [] p = "DO AO Bank VTB (Kazahstan)" -> {"ru:vtb", "bank"}
    [] p = "Klient, IIN 880101300123" -> {"iin", "cs:IIN"}
    [] p = "Vhodyashchie platezhi" -> {"vhodyashch", "vh", "vhod", "vhodyashchie"}
    [] p = "Ishodyashchie platezhi" -> {"ishodyashch", "ish", "ishod", "ishodyashchie"}
    [] p = "2023-01-05" -> {}
    [] p = "Itogo" -> {"itogo"}
    [] p = "Ishodyashchij ostatok" -> {"ishodyashch", "ishodyashchij", "ostatok", "ish", "ishod"}
    [] p = "Zachislenie na schet" -> {"zachislenie", "schet"}
    [] p = "Spisanie so scheta" -> {"spisanie", "spisan", "schet"}
    [] p = "Ishodyashchij" -> {"ishodyashch", "ishodyashchij", "ish", "ishod"}
    [] p = "Vhodyashchij" -> {"vhodyashch", "vhodyashchij", "vh", "vhod"}
    [] p = "Pokupka" -> {}
    [] p = "Kredit" -> {"kredit"}
    [] p = "Debet" -> {"debet"}
    [] p = "n/a" -> {}
    [] p = "-500,00" -> {}
    [] p = "1 234,56" -> {}
    [] p = "Prihod" -> {"prihod"}
    [] p = "Rashod" -> {"rashod"}
    [] p = "CR" -> {"cr"}
    [] p = "DR" -> {"dr"}
    [] p = "Credit" -> {"cr"}
    [] p = "Income" -> {"income"}
    [] p = "Expense" -> {"expense"}
    [] p = "Prihod/Rashod" -> {"prihod", "rashod"}
    [] p = "Debet/Kredit" -> {"debet", "kredit"}
    [] p = "Vyhod" -> {"vyhod"}
    [] p = "Perevod" -> {"perevod"}
    [] p = "Vozvrat perevoda" -> {"vozvrat", "perevod"}
    [] p = "KZ123456789012345678" -> {}
    [] p = "KZ98765432109876543210AB" -> {}
    [] p = "12" -> {}
    [] p = "Popolnenie scheta" -> {"popolnenie", "popoln", "schet"}
    [] p = "Vydacha nalichnyh" -> {"vydach"}
    [] p = "Sheet1" -> {}
    [] p = "Vhodyashchie" -> {"vhodyashch", "vh", "vhod", "vhodyashchie"}
    [] p = "Ishodyashchie" -> {"ishodyashch", "ish", "ishod", "ishodyashchie"}
    [] p = "KZ72551N129228750KZT" -> {}
    [] p = "" -> {}
    [] p = "Raznoe" -> {}
    [] p = "Arhiv" -> {}
    [] p = "Delta Bank vypiski" -> {"delta bank"}
    [] p = "Narodnyj sberegatel'nyj bank" -> {"bank", "narodnyj sberegatel'nyj"}
    [] p = "Kaspi" -> {"kaspi"}
    [] p = "Alatau" -> {"alatau"}
    [] p = "VTB" -> {"ru:vtb"}
    [] p = "Cesnabank" -> {"bank", "cesnabank", "up:CESNABANK"}
    [] p = "vypiska.xlsx" -> {}
    [] p = "statement_standard_KZ123456789012345678.xlsx" -> {"statement_standard"}
    [] p = "report.csv" -> {}
    [] p = "old.xls" -> {}
    [] p = "REPORT.XLSX" -> {}
    [] p = "~$vypiska.xlsx" -> {}
    [] p = "empty.xlsx" -> {}
    [] OTHER -> {}

IbanOf(p) ==
  CASE p = "KZ123456789012345678" -> "KZ123456789012345678"
    [] p = "KZ98765432109876543210AB" -> "KZ98765432109876543210"
    [] p = "KZ72551N129228750KZT" -> "KZ72551N129228750KZT"
    [] p = "statement_standard_KZ123456789012345678.xlsx" -> "KZ123456789012345678"
    [] OTHER -> "None"

Iban22Of(p) ==
  CASE p = "KZ123456789012345678" -> "KZ123456789012345678"
    [] p = "KZ98765432109876543210AB" -> "KZ98765432109876543210AB"
    [] p = "KZ72551N129228750KZT" -> "KZ72551N129228750KZT"
    [] p = "statement_standard_KZ123456789012345678.xlsx" -> "KZ123456789012345678"
    [] OTHER -> "None"

KzTextOf(p) ==
  CASE p = "KZ123456789012345678" -> "KZ123456789012345678"
    [] p = "KZ98765432109876543210AB" -> "KZ98765432109876543210AB"
    [] p = "KZ72551N129228750KZT" -> "KZ72551N129228750KZT"
    [] OTHER -> "None"

ExtensionOf(p) ==
  CASE p = "vypiska.xlsx" -> ".xlsx"
    [] p = "statement_standard_KZ123456789012345678.xlsx" -> ".xlsx"
    [] p = "report.csv" -> ".csv"
    [] p = "old.xls" -> ".xls"
    [] p = "REPORT.XLSX" -> ".xlsx"
    [] p = "~$vypiska.xlsx" -> ".xlsx"
    [] p = "empty.xlsx" -> ".xlsx"
    [] OTHER -> ""

EndsWithExcel(p) == p \in {"vypiska.xlsx", "statement_standard_KZ123456789012345678.xlsx", "old.xls", "~$vypiska.xlsx", "empty.xlsx"}

IsHiddenName(p) == p \in {"~$vypiska.xlsx"}

IsDigits(p) == p \in {"12"}

TextAmount(p) ==
  CASE p = "-500,00" -> Some(-50000)
    [] p = "1 234,56" -> Some(123456)
    [] p = "12" -> Some(1200)
    [] OTHER -> None

\* the characters of a phrase; a phrase without a digit is kept as one
\* token, no function of the source looks inside it
TokensOf(p) ==
  CASE p = "" -> <<>>
    [] p = "Vhodyashchij ostatok: 0,00" -> <<Ch("V"), Ch("h"), Ch("o"), Ch("d"), Ch("ya"), Ch("shch"), Ch("i"), Ch("j"), Ch(" "), Ch("o"), Ch("s"), Ch("t"), Ch("a"), Ch("t"), Ch("o"), Ch("k"), Ch(":"), Ch(" "), Digits(<<0>>), Ch(","), Digits(<<0, 0>>)>>
    [] p = "Klient, IIN 880101300123" -> <<Ch("K"), Ch("l"), Ch("i"), Ch("e"), Ch("n"), Ch("t"), Ch(","), Ch(" "), Ch("I"), Ch("I"), Ch("N"), Ch(" "), Digits(<<8, 8, 0, 1, 0, 1, 3, 0, 0, 1, 2, 3>>)>>
    [] p = "2023-01-05" -> <<Digits(<<2, 0, 2, 3>>), Ch("-"), Digits(<<0, 1>>), Ch("-"), Digits(<<0, 5>>)>>
    [] p = "-500,00" -> <<Ch("-"), Digits(<<5, 0, 0>>), Ch(","), Digits(<<0, 0>>)>>
    [] p = "1 234,56" -> <<Digits(<<1>>), Ch(" "), Digits(<<2, 3, 4>>), Ch(","), Digits(<<5, 6>>)>>
    [] p = "KZ123456789012345678" -> <<Ch("K"), Ch("Z"), Digits(<<1, 2, 3, 4, 5, 6, 7, 8, 9, 0, 1, 2, 3, 4, 5, 6, 7, 8>>)>>
    [] p = "KZ98765432109876543210AB" -> <<Ch("K"), Ch("Z"), Digits(<<9, 8, 7, 6, 5, 4, 3, 2, 1, 0, 9, 8, 7, 6, 5, 4, 3, 2, 1, 0>>), Ch("A"), Ch("B")>>
    [] p = "12" -> <<Digits(<<1, 2>>)>>
    [] p = "Sheet1" -> <<Ch("S"), Ch("h"), Ch("e"), Ch("e"), Ch("t"), Digits(<<1>>)>>
    [] p = "KZ72551N129228750KZT" -> <<Ch("K"), Ch("Z"), Digits(<<7, 2, 5, 5, 1>>), Ch("N"), Digits(<<1, 2, 9, 2, 2, 8, 7, 5, 0>>), Ch("K"), Ch("Z"), Ch("T")>>
    [] p = "statement_standard_KZ123456789012345678.xlsx" -> <<Ch("s"), Ch("t"), Ch("a"), Ch("t"), Ch("e"), Ch("m"), Ch("e"), Ch("n"), Ch("t"), Ch("_"), Ch("s"), Ch("t"), Ch("a"), Ch("n"), Ch("d"), Ch("a"), Ch("r"), Ch("d"), Ch("_"), Ch("K"), Ch("Z"), Digits(<<1, 2, 3, 4, 5, 6, 7, 8, 9, 0, 1, 2, 3, 4, 5, 6, 7, 8>>), Ch("."), Ch("x"), Ch("l"), Ch("s"), Ch("x")>>
    [] OTHER -> <<Ch(p)>>

-----------------------------------------------------------------------------
(* Raw cell values of a sheet (file_reader.SheetData.rows) *)

NoneCell == [k |-> "none", n |-> 0, p |-> ""]

Num(c) == [k |-> "num", n |-> c, p |-> ""]

\* an integer cell too large for a float: float(value) raises OverflowError
BigInt == [k |-> "big", n |-> 0, p |-> ""]

\* a native datetime cell: midnight of the n-th of January 2023
Dt(d) == [k |-> "dt", n |-> d, p |-> ""]

Txt(p) == [k |-> "txt", n |-> 0, p |-> p]

\* Python truthiness of a cell: `if cell`
Truthy(c) ==
  \/ c.k \in {"big", "dt"}
  \/ c.k = "num" /\ c.n # 0
  \/ c.k = "txt" /\ c.p # ""

\* `m in str(cell).lower()` (or the case-sensitive / exact variants of m)
Has(c, m) == c.k = "txt" /\ m \in MarkersOf(c.p)

\* `cell and m in str(cell)...`
THas(c, m) == Truthy(c) /\ Has(c, m)

\* m in ' '.join(str(c).lower() for c in row if c)
RowHas(row, m) == \E i \in 1..Len(row) : THas(row[i], m)

\* some cell of the row (None excluded, falsy kept) contains m
RowAnyHas(row, m) == \E i \in 1..Len(row) : Has(row[i], m)

\* rows[:n]
Take(rows, n) == SubSeq(rows, 1, IF Len(rows) < n THEN Len(rows) ELSE n)

\* m in text.lower() for a folder, file name or sheet name
In(m, p) == m \in MarkersOf(p)

SheetData(name, rows) == [name |-> name, rows |-> rows]

num_rows(s) == Len(s.rows)

FileInfo(filename, extension, folder_name) ==
  [filename |-> filename, extension |-> extension, folder_name |-> folder_name]

-----------------------------------------------------------------------------
(* Field normalizers (normalizer.py) *)

\* normalize_amount raises on this value: float(value) of an int beyond the
\* float range is an OverflowError, which the function does not catch
normalize_amount_raises(c) == c.k = "big"

\* normalize_amount on a value it does not raise on: None, or the amount in
\* hundredths.  A string is parsed (TextAmount), any other non-number is
\* turned into a string that float() rejects.
normalize_amount(c) ==
  CASE c.k = "none" -> None
    [] c.k = "num" -> Some(c.n)
    [] c.k = "txt" -> TextAmount(c.p)
    [] OTHER -> None

\* normalize_amount_abs
normalize_amount_abs(c) ==
  LET result == normalize_amount(c) IN
  IF result.some THEN Some(IF result.v < 0 THEN -result.v ELSE result.v) ELSE None

\* an amount a caller already normalized, passed on as a Python value
AsCell(o) == IF o.some THEN Num(o.v) ELSE NoneCell

\* Python truthiness of an Optional[float]: `if x` / `not x`
Nonzero(o) == o.some /\ o.v # 0

income_markers == <<"vhodyashch", "prihod", "kredit", "income", "cr", "vhod">>

expense_markers == <<"ishod", "rashod", "debet", "expense", "dr", "ish", "vyhod">>

income_ops == <<"vhodyashch", "popoln", "zachislenie", "vozvrat", "incoming">>

expense_ops == <<"ishodyashch", "spisan", "vydach", "perevod", "outgoing", "snyatie">>

\* for m in markers: if m in text: return ...
AnyIn(markers, text) == \E j \in 1..Len(markers) : In(markers[j], text)

\* determine_direction with the debit/credit comparison placed before the
\* explicit direction text
determine_direction_amounts_first(debit_amount, credit_amount, operation_type, raw_direction) ==
  LET credit_val == normalize_amount(credit_amount)
      debit_val == normalize_amount(debit_amount)
  IN
  IF Nonzero(credit_val) /\ credit_val.v > 0 /\ (~Nonzero(debit_val) \/ debit_val.v = 0)
    THEN "Prihod"
  ELSE IF Nonzero(debit_val) /\ debit_val.v > 0 /\ (~Nonzero(credit_val) \/ credit_val.v = 0)
    THEN "Rashod"
  ELSE IF raw_direction # "" /\ AnyIn(income_markers, raw_direction) THEN "Prihod"
  ELSE IF raw_direction # "" /\ AnyIn(expense_markers, raw_direction) THEN "Rashod"
  ELSE IF operation_type # "" /\ AnyIn(income_ops, operation_type) THEN "Prihod"
  ELSE IF operation_type # "" /\ AnyIn(expense_ops, operation_type) THEN "Rashod"
  ELSE "None"

\* determine_direction with the expense markers of the explicit direction
\* text tested before the income markers
determine_direction_expense_first(debit_amount, credit_amount, operation_type, raw_direction) ==
  IF raw_direction # "" /\ AnyIn(expense_markers, raw_direction) THEN "Rashod"
  ELSE IF raw_direction # "" /\ AnyIn(income_markers, raw_direction) THEN "Prihod"
  ELSE determine_direction_amounts_first(debit_amount, credit_amount, operation_type, "")

\* determine_direction: "Prihod" (income), "Rashod" (expense) or "None".
\* debit_amount and credit_amount are cell values, operation_type and
\* raw_direction are texts ("" for None or the empty string).
determine_direction(debit_amount, credit_amount, operation_type, raw_direction) ==
  LET credit_val == normalize_amount(credit_amount)
      debit_val == normalize_amount(debit_amount)
      byAmounts ==
        IF Nonzero(credit_val) /\ credit_val.v > 0 /\ (~Nonzero(debit_val) \/ debit_val.v = 0)
          THEN "Prihod"
        ELSE IF Nonzero(debit_val) /\ debit_val.v > 0 /\ (~Nonzero(credit_val) \/ credit_val.v = 0)
          THEN "Rashod"
        ELSE IF operation_type # "" /\ AnyIn(income_ops, operation_type) THEN "Prihod"
        ELSE IF operation_type # "" /\ AnyIn(expense_ops, operation_type) THEN "Rashod"
        ELSE "None"
  IN
  IF raw_direction # "" /\ AnyIn(income_markers, raw_direction) THEN "Prihod"
  ELSE IF raw_direction # "" /\ AnyIn(expense_markers, raw_direction) THEN "Rashod"
  ELSE byAmounts

\* ---- normalize_amount of a string ----

\* digit runs that have come to stand side by side are one run
RECURSIVE Join(_)
Join(s) ==
  IF Len(s) < 2 THEN s
  ELSE IF s[1].t = "digits" /\ s[2].t = "digits"
    THEN Join(<<Digits(s[1].d \o s[2].d)>> \o SubSeq(s, 3, Len(s)))
  ELSE <<s[1]>> \o Join(Tail(s))

\* s.replace(c, '') for every character c of chars
remove(s, chars) == Join(SelectSeq(s, LAMBDA x : x.t \notin chars))

\* s.replace(a, b)
replace(s, a, b) == [i \in 1..Len(s) |-> IF s[i].t = a THEN Ch(b) ELSE s[i]]

\* c in s
Contains(s, c) == \E i \in 1..Len(s) : s[i].t = c

\* round(x, 2) in hundredths of the number with the given sign, integer
\* digits and fraction digits.  A fraction that is a decimal tie (third digit
\* 5, nothing but zeros behind) is rounded down: the double nearest to it may
\* lie on either side.
round2(neg, int, frac) ==
  LET f == frac \o <<0, 0, 0>>
      rest == SubSeq(f, 4, Len(f))
      up == f[3] > 5 \/ (f[3] = 5 /\ \E i \in 1..Len(rest) : rest[i] # 0)
      h == 100 * Value(int) + 10 * f[1] + f[2] + (IF up THEN 1 ELSE 0)
  IN Some(IF neg THEN -h ELSE h)

\* round(float(s), 2) for a string of digits, signs, points and characters
\* that are no part of a number; None for ValueError
float_round(s) ==
  LET signed == s # <<>> /\ s[1].t \in {"-", "+"}
      u == IF signed THEN Tail(s) ELSE s
      neg == signed /\ s[1].t = "-"
  IN
  CASE Len(u) = 1 /\ u[1].t = "digits" -> round2(neg, u[1].d, <<>>)
    [] Len(u) = 2 /\ u[1].t = "digits" /\ u[2].t = "." -> round2(neg, u[1].d, <<>>)
    [] Len(u) = 2 /\ u[1].t = "." /\ u[2].t = "digits" -> round2(neg, <<>>, u[2].d)
    [] Len(u) = 3 /\ u[1].t = "digits" /\ u[2].t = "." /\ u[3].t = "digits" ->
         round2(neg, u[1].d, u[3].d)
    [] OTHER -> None

\* the comma rule of normalize_amount on the string without blanks and
\* currency signs
comma_rule(s) ==
  IF Contains(s, ",") /\ ~Contains(s, ".") THEN replace(s, ",", ".")
  ELSE IF Contains(s, ",") /\ Contains(s, ".") THEN remove(s, {","})
  ELSE s

\* normalize_amount of a value that is neither None nor a number; value is
\* str(value)
normalize_amount_str(value) ==
  IF strip(value) = <<>> THEN None
  ELSE float_round(comma_rule(remove(remove(strip(value), {"nbsp", " "}), {"tenge", "$", "euro"})))

\* ---- normalize_iin_bin ----

\* s.lstrip("'")
RECURSIVE lstrip_quote(_)
lstrip_quote(s) == IF s # <<>> /\ s[1].t = "'" THEN lstrip_quote(Tail(s)) ELSE s

\* s.replace('.', '').replace('0', '') != '': a character other than '.'
\* and '0'
NotOnlyZeros(s) ==
  \E i \in 1..Len(s) :
    IF s[i].t = "digits" THEN \E j \in 1..Len(s[i].d) : s[i].d[j] # 0 ELSE s[i].t # "."

\* s.split('.')[0] of a string with a '.'
BeforePoint(s) ==
  SubSeq(s, 1, (CHOOSE i \in 1..Len(s) :
                  s[i].t = "." /\ \A j \in 1..(i - 1) : s[j].t # ".") - 1)

\* re.sub(r'\D', '', s): the digits of the string in order
RECURSIVE DigitsOf(_)
DigitsOf(s) == IF s = <<>> THEN <<>> ELSE s[1].d \o DigitsOf(Tail(s))

\* digits.zfill(12) when shorter
zfill12(ds) == IF Len(ds) < 12 THEN [i \in 1..(12 - Len(ds)) |-> 0] \o ds ELSE ds

\* s.lower() == 'none'
IsNoneWord(s) ==
  /\ Len(s) = 4
  /\ s[1].t \in {"n", "N"} /\ s[2].t \in {"o", "O"} /\ s[3].t \in {"n", "N"}
  /\ s[4].t \in {"e", "E"}

\* the steps of normalize_iin_bin after the leading apostrophes are gone
iin_digits(s) ==
  IF DigitsOf(s) = <<>> THEN (IF s = <<>> THEN NoText ELSE Some(s))
  ELSE Some(<<Digits(zfill12(DigitsOf(s)))>>)

iin_cut(s) ==
  iin_digits(remove(IF Contains(s, ".") /\ NotOnlyZeros(s) THEN BeforePoint(s) ELSE s,
                    Whitespace))

\* normalize_iin_bin of a value that is not None; value is str(value)
normalize_iin_bin(value) ==
  IF strip(value) = <<>> \/ IsNoneWord(strip(value)) THEN NoText
  ELSE iin_cut(lstrip_quote(strip(value)))

\* ---- normalize_date ----

\* a datetime value
datetime(year, month, day, hour, minute, second, microsecond) ==
  [year |-> year, month |-> month, day |-> day, hour |-> hour, minute |-> minute,
   second |-> second, microsecond |-> microsecond]

\* a format is the sequence of its directives and literal characters
DATE_FORMATS ==
  << <<"%Y", "-", "%m", "-", "%d", " ", "%H", ":", "%M", ":", "%S">>,
     <<"%Y", "-", "%m", "-", "%d", "T", "%H", ":", "%M", ":", "%S", ".", "%f">>,
     <<"%Y", "-", "%m", "-", "%d", "T", "%H", ":", "%M", ":", "%S">>,
     <<"%Y", ".", "%m", ".", "%d", " ", "%H", ":", "%M", ":", "%S">>,
     <<"%d", ".", "%m", ".", "%Y", " ", "%H", ":", "%M", ":", "%S">>,
     <<"%d", "/", "%m", "/", "%Y", " ", "%H", ":", "%M", ":", "%S">>,
     <<"%d", ".", "%m", ".", "%Y">>,
     <<"%d", "/", "%m", "/", "%Y">>,
     <<"%Y", "-", "%m", "-", "%d">>,
     <<"%d", ".", "%m", ".", "%y">> >>

IsDirective(f) == f \in {"%Y", "%m", "%d", "%H", "%M", "%S", "%f", "%y"}

\* the regular expression datetime.strptime compiles a directive to, on a
\* run of digits that stands between two literals
DirectiveMatches(f, ds) ==
  CASE f = "%Y" -> Len(ds) = 4
    [] f = "%y" -> Len(ds) = 2
    [] f = "%m" -> \/ Len(ds) = 1 /\ Value(ds) >= 1
                   \/ Len(ds) = 2 /\ Value(ds) \in 1..12
    [] f = "%d" -> \/ Len(ds) = 1 /\ Value(ds) >= 1
                   \/ Len(ds) = 2 /\ Value(ds) \in 1..31
    [] f = "%H" -> Len(ds) = 1 \/ (Len(ds) = 2 /\ Value(ds) <= 23)
    [] f = "%M" -> Len(ds) = 1 \/ (Len(ds) = 2 /\ Value(ds) <= 59)
    [] f = "%S" -> Len(ds) = 1 \/ (Len(ds) = 2 /\ Value(ds) <= 61)
    [] f = "%f" -> Len(ds) \in 1..6

\* the field a matched directive sets
SetField(dt, f, ds) ==
  CASE f = "%Y" -> [dt EXCEPT !.year = Value(ds)]
    [] f = "%y" -> [dt EXCEPT !.year = IF Value(ds) <= 68 THEN 2000 + Value(ds)
                                       ELSE 1900 + Value(ds)]
    [] f = "%m" -> [dt EXCEPT !.month = Value(ds)]
    [] f = "%d" -> [dt EXCEPT !.day = Value(ds)]
    [] f = "%H" -> [dt EXCEPT !.hour = Value(ds)]
    [] f = "%M" -> [dt EXCEPT !.minute = Value(ds)]
    [] f = "%S" -> [dt EXCEPT !.second = Value(ds)]
    [] f = "%f" -> [dt EXCEPT !.microsecond = Value(ds) * Pow10(6 - Len(ds))]

\* the whole string against the whole format: a blank of the format takes
\* one or more blanks, a literal takes itself, a directive a run of digits
RECURSIVE Matched(_, _, _)
Matched(s, fmt, dt) ==
  IF fmt = <<>> THEN (IF s = <<>> THEN Some(dt) ELSE None)
  ELSE IF s = <<>> THEN None
  ELSE IF IsDirective(fmt[1]) THEN
    IF s[1].t = "digits" /\ DirectiveMatches(fmt[1], s[1].d)
      THEN Matched(Tail(s), Tail(fmt), SetField(dt, fmt[1], s[1].d))
    ELSE None
  ELSE IF s[1].t # fmt[1] THEN None
  ELSE Matched(IF fmt[1] = " " THEN lstrip(s) ELSE Tail(s), Tail(fmt), dt)

IsLeap(year) == year % 4 = 0 /\ (year % 100 # 0 \/ year % 400 = 0)

DaysIn(year, month) ==
  IF month = 2 THEN (IF IsLeap(year) THEN 29 ELSE 28)
  ELSE IF month \in {4, 6, 9, 11} THEN 30 ELSE 31

\* the datetime constructor accepts the fields (else ValueError)
Constructible(m) ==
  IF m.some /\ m.v.year >= 1 /\ m.v.day <= DaysIn(m.v.year, m.v.month) /\ m.v.second <= 59
    THEN m
  ELSE None

\* datetime.strptime(s, fmt): the datetime, None for ValueError
strptime(s, fmt) == Constructible(Matched(s, fmt, datetime(1900, 1, 1, 0, 0, 0, 0)))

\* dt.strftime('%Y-%m-%d'); %Y is not padded
strftime_date(dt) ==
  <<Digits(Pad(dt.year, Width(dt.year))), Ch("-"), Digits(Pad(dt.month, 2)), Ch("-"),
    Digits(Pad(dt.day, 2))>>

\* dt.strftime('%Y-%m-%d %H:%M:%S')
strftime_datetime(dt) ==
  strftime_date(dt) \o
  <<Ch(" "), Digits(Pad(dt.hour, 2)), Ch(":"), Digits(Pad(dt.minute, 2)), Ch(":"),
    Digits(Pad(dt.second, 2))>>

\* normalize_date of a native datetime, and the rendering of a parsed one
normalize_date_datetime(dt) ==
  IF dt.hour = 0 /\ dt.minute = 0 /\ dt.second = 0 THEN strftime_date(dt)
  ELSE strftime_datetime(dt)

\* for fmt in DATE_FORMATS from the i-th on: the first that parses
RECURSIVE TryFormats(_, _)
TryFormats(s, i) ==
  IF i > Len(DATE_FORMATS) THEN s
  ELSE IF strptime(s, DATE_FORMATS[i]).some
    THEN normalize_date_datetime(strptime(s, DATE_FORMATS[i]).v)
  ELSE TryFormats(s, i + 1)

\* normalize_date of a value that is neither None nor a datetime; value is
\* str(value)
normalize_date_str(value) ==
  IF strip(value) = <<>> THEN NoText ELSE Some(TryFormats(strip(value), 1))

\* repr of a float given in hundredths: 1.0, 1.5, 1.25, -500.0
float_str(n) ==
  LET a == IF n < 0 THEN -n ELSE n
      frac == IF a % 10 = 0 THEN <<(a % 100) \div 10>> ELSE Pad(a % 100, 2)
  IN (IF n < 0 THEN <<Ch("-")>> ELSE <<>>)
     \o <<Digits(Pad(a \div 100, Width(a \div 100))), Ch("."), Digits(frac)>>

\* str(value) of a cell that is neither None nor a datetime; numbers are
\* floats, the integer beyond the float range is a run of 309 digits
str(c) ==
  CASE c.k = "txt" -> TokensOf(c.p)
    [] c.k = "num" -> float_str(c.n)
    [] c.k = "big" -> <<Digits([i \in 1..309 |-> 9])>>

\* normalize_date(value) of a cell value; the datetime cell Dt(d) is
\* midnight of the d-th of January 2023
normalize_date(c) ==
  CASE c.k = "none" -> NoText
    [] c.k = "dt" -> Some(normalize_date_datetime(datetime(2023, 1, c.n, 0, 0, 0, 0)))
    [] OTHER -> normalize_date_str(str(c))

\* the text is 'YYYY-MM-DD' or 'YYYY-MM-DD HH:MM:SS'
IsIso(s) ==
  /\ Len(s) \in {5, 11}
  /\ \A i \in 1..Len(s) :
       IF i % 2 = 1 THEN s[i].t = "digits" /\ Len(s[i].d) = (IF i = 1 THEN 4 ELSE 2)
       ELSE s[i].t = (IF i \in {2, 4} THEN "-" ELSE IF i = 6 THEN " " ELSE ":")

-----------------------------------------------------------------------------
(* Recognizers: can_parse of each registered parser.  The result is the    *)
(* score together with the kind of signal of the branch that returned it:  *)
(* "hint" (folder or file name), "token" (bank-identifying text),          *)
(* "structure" (header structure), "none".                                 *)

Score(s, why) == [score |-> s, why |-> why]

\* the first index whose flag is TRUE, 0 when there is none: the index at
\* which a `for i, row in enumerate(rows)` loop returns or breaks
FirstTrue(flags) ==
  LET hits == {i \in DOMAIN flags : flags[i]} IN
  IF hits = {} THEN 0 ELSE CHOOSE i \in hits : \A j \in hits : i <= j

STANDARD_MARKERS ==
  {"data i vremya operacii", "valyuta operacii", "summa v valyute",
   "summa v tenge", "platel'shchik", "poluchatel"}

VTB_MARKERS == {"vid operacii (kd)", "rezidenstvo"}

TruthyCount(row) == Cardinality({i \in 1..Len(row) : Truthy(row[i])})

_is_standard_header(row) ==
  /\ TruthyCount(row) >= 10
  /\ Cardinality({m \in STANDARD_MARKERS : RowHas(row, m)}) >= 4

\* index (from 1) of the header row among the first 10 rows, 0 for None
_find_header_idx(rows) ==
  LET r == Take(rows, 10) IN FirstTrue([i \in 1..Len(r) |-> _is_standard_header(r[i])])

\* the score Standard18ColParser.can_parse gives for the header row it found
Standard18Col_score(row) ==
  IF TruthyCount(row) < 15 THEN Score(0, "none")
  ELSE IF \E m \in VTB_MARKERS : RowHas(row, m) THEN Score(90, "structure")
  ELSE IF RowHas(row, "vidy operacii") \/ RowHas(row, "kategoriya dokumenta")
    THEN Score(90, "structure")
  ELSE IF RowHas(row, "data i vremya operacii") /\ RowHas(row, "summa")
    THEN Score(70, "structure")
  ELSE Score(0, "none")

Standard18Col_can_parse(sheet, file_info) ==
  IF _find_header_idx(sheet.rows) = 0 THEN Score(0, "none")
  ELSE Standard18Col_score(sheet.rows[_find_header_idx(sheet.rows)])

NarodnyBank_can_parse(sheet, file_info) ==
  IF \E i \in 1..Len(Take(sheet.rows, 5)) : RowHas(sheet.rows[i], "cs:HSBKKZKX")
    THEN Score(95, "token")
  ELSE IF In("narodnyj sberegatel'nyj", file_info.folder_name)
    THEN Score(80, "hint")
  ELSE Score(0, "none")

KaspiStatement_can_parse(sheet, file_info) ==
  LET rows == Take(sheet.rows, 25)
      any(m) == \E i \in 1..Len(rows) : RowAnyHas(rows[i], m)
      has_kaspi_mention == any("kaspi") \/ any("ru:kaspi")
      has_balance == any("vhodyashchij ostatok")
      has_payer_recipient == any("platel'shchik") \/ any("poluchatel")
      has_vidy_operacii == any("vidy operacii") \/ any("kategoriya dokumenta")
  IN
  IF has_kaspi_mention /\ has_balance THEN Score(95, "token")
  ELSE IF has_kaspi_mention /\ has_payer_recipient THEN Score(90, "token")
  ELSE IF has_balance /\ has_vidy_operacii /\ has_payer_recipient
    THEN Score(88, "structure")
  ELSE IF (In("kaspi", file_info.folder_name) \/ In("ru:kaspi", file_info.folder_name))
          /\ (has_payer_recipient \/ has_balance)
    THEN Score(85, "hint+structure")
  ELSE Score(0, "none")

\* the cells of the first n rows in reading order
RECURSIVE Cells(_)
Cells(rows) ==
  IF rows = <<>> THEN <<>> ELSE rows[1] \o Cells(Tail(rows))

KaspiStatistics_can_parse(sheet, file_info) ==
  LET cells == Cells(Take(sheet.rows, 10))
      hit(c) == THas(c, "statistika") \/ THas(c, "terminal_id")
      i == FirstTrue([j \in 1..Len(cells) |-> hit(cells[j])])
  IN
  IF i = 0 THEN Score(0, "none")
  ELSE IF THas(cells[i], "statistika") THEN Score(90, "token")
  ELSE Score(30, "structure")

AlatauCity_can_parse(sheet, file_info) ==
  IF In("statement_standard", file_info.filename) THEN Score(95, "hint")
  ELSE IF In("alatau", file_info.folder_name) THEN Score(80, "hint")
  ELSE IF \E i \in 1..Len(Take(sheet.rows, 10)) : RowHas(sheet.rows[i], "alatau city")
    THEN Score(85, "token")
  ELSE Score(0, "none")

DeltaBank_can_parse(sheet, file_info) ==
  IF In("delta bank", file_info.folder_name) THEN Score(90, "hint")
  ELSE
    LET rows == Take(sheet.rows, 5)
        named(row) == RowHas(row, "delta bank")
        shaped(row) == RowHas(row, "No p/p") /\ RowHas(row, "naimenovanie kompanii")
        hit(row) == named(row) \/ shaped(row)
        i == FirstTrue([j \in 1..Len(rows) |-> hit(rows[j])])
    IN
    IF i = 0 THEN Score(0, "none")
    ELSE IF named(rows[i]) THEN Score(85, "token")
    ELSE Score(70, "structure")

Tsesnabank_can_parse(sheet, file_info) ==
  LET cells == Cells(Take(sheet.rows, 10)) IN
  IF \E i \in 1..Len(cells) : THas(cells[i], "up:CESNABANK") \/ THas(cells[i], "up:TSESKZKA")
    THEN Score(95, "token")
  ELSE IF In("cesnabank", file_info.folder_name) THEN Score(80, "hint")
  ELSE Score(0, "none")

-----------------------------------------------------------------------------
(* Registry and detector *)

\* registration order: the import order of main.py (each module registers
\* its classes at import, parsers/__init__.py register_parser)
RegistryAfterImport ==
  <<"Standard18ColParser", "NarodnyBankParser", "KaspiStatementParser",
    "KaspiStatisticsParser", "AlatauCityParser", "TsesnabankParser", "DeltaBankParser">>

can_parse(parser_cls, sheet, file_info) ==
  CASE parser_cls = "Standard18ColParser" -> Standard18Col_can_parse(sheet, file_info)
    [] parser_cls = "NarodnyBankParser" -> NarodnyBank_can_parse(sheet, file_info)
    [] parser_cls = "KaspiStatementParser" -> KaspiStatement_can_parse(sheet, file_info)
    [] parser_cls = "KaspiStatisticsParser" -> KaspiStatistics_can_parse(sheet, file_info)
    [] parser_cls = "AlatauCityParser" -> AlatauCity_can_parse(sheet, file_info)
    [] parser_cls = "TsesnabankParser" -> Tsesnabank_can_parse(sheet, file_info)
    [] parser_cls = "DeltaBankParser" -> DeltaBank_can_parse(sheet, file_info)

\* file_info['folder_name'] is None: file_info.get('folder_name', '').lower()
\* raises AttributeError in the recognizers that reach it
NoFolder == "None"

\* the call parser_cls.can_parse(sheet, file_info) raises: the recognizer
\* reaches its `folder = ... .lower()` and the folder is None
can_parse_raises(parser_cls, sheet, file_info) ==
  /\ file_info.folder_name = NoFolder
  /\ CASE parser_cls = "Standard18ColParser" -> FALSE
       [] parser_cls = "NarodnyBankParser" ->
            ~\E i \in 1..Len(Take(sheet.rows, 5)) : RowHas(sheet.rows[i], "cs:HSBKKZKX")
       [] parser_cls = "KaspiStatementParser" -> TRUE
       [] parser_cls = "KaspiStatisticsParser" -> FALSE
       [] parser_cls = "AlatauCityParser" -> ~In("statement_standard", file_info.filename)
       [] parser_cls = "TsesnabankParser" ->
            ~\E i \in 1..Len(Take(sheet.rows, 10)) :
                RowHas(sheet.rows[i], "up:CESNABANK") \/ RowHas(sheet.rows[i], "up:TSESKZKA")
       [] parser_cls = "DeltaBankParser" -> TRUE

AcceptThreshold == 30

\* the early exit taken as soon as a sheet is accepted
StrongMatchLowered == AcceptThreshold

StrongMatch == 90

\* the update written `>=`: a later candidate with the same score replaces
\* the best
BetterOrEqual(best, parser_cls, r) ==
  IF r.score >= best.best_score /\ r.score > 0
    THEN [best_parser |-> parser_cls, best_score |-> r.score, why |-> r.why,
          scanned |-> best.scanned]
    ELSE best

\* if score > best_score: best_score = score; best_parser = parser_cls
Better(best, parser_cls, r) ==
  IF r.score > best.best_score
    THEN [best_parser |-> parser_cls, best_score |-> r.score, why |-> r.why,
          scanned |-> best.scanned]
    ELSE best

\* one pass of the inner loop: try: score = can_parse(...); the update;
\* except Exception: a warning, the best pair as it was
TryCanParse(best, parser_cls, sheet, file_info) ==
  IF can_parse_raises(parser_cls, sheet, file_info) THEN best
  ELSE Better(best, parser_cls, can_parse(parser_cls, sheet, file_info))

\* the inner loop of detect_parser over the registry, on one sheet
RECURSIVE ScoreSheet(_, _, _, _, _)
ScoreSheet(registry, j, sheet, file_info, best) ==
  IF j > Len(registry) THEN best
  ELSE ScoreSheet(registry, j + 1, sheet, file_info,
                  TryCanParse(best, registry[j], sheet, file_info))

\* the outer loop over the sheets; AfterSheet is its early exit
\* `if best_score >= 0.9: break`
RECURSIVE ScoreSheets(_, _, _, _, _)
RECURSIVE AfterSheet(_, _, _, _, _)
ScoreSheets(registry, sheets, i, file_info, best) ==
  IF i > Len(sheets) THEN best
  ELSE AfterSheet(registry, sheets, i, file_info,
                  [ScoreSheet(registry, 1, sheets[i], file_info, best) EXCEPT !.scanned = i])

AfterSheet(registry, sheets, i, file_info, best) ==
  IF best.best_score >= StrongMatch THEN best
  ELSE ScoreSheets(registry, sheets, i + 1, file_info, best)

\* the state of detect_parser before the loops
NoBest == [best_parser |-> "None", best_score |-> 0, why |-> "none", scanned |-> 0]

\* the acceptance test written `>` instead of `>=`
AcceptStrictly(b) ==
  IF b.best_score > AcceptThreshold
    THEN b @@ [returned |-> b.best_parser]
    ELSE b @@ [returned |-> "None"]

\* if best_score >= 0.3: return best_parser; return None
Accept(b) ==
  IF b.best_score >= AcceptThreshold
    THEN b @@ [returned |-> b.best_parser]
    ELSE b @@ [returned |-> "None"]

\* detect_parser with the acceptance test written `>` instead of `>=`
detect_parser_strict(registry, sheets, file_info) ==
  IF sheets = <<>> THEN NoBest @@ [returned |-> "None"]
  ELSE AcceptStrictly(ScoreSheets(registry, sheets, 1, file_info, NoBest))

\* detect_parser scoring the first sheet only
detect_parser_sheet0(registry, sheets, file_info) ==
  IF sheets = <<>> THEN NoBest @@ [returned |-> "None"]
  ELSE Accept(ScoreSheets(registry, Take(sheets, 1), 1, file_info, NoBest))

\* detect_parser: the parser class returned ("None" for None), with the best
\* score, the signal of the winning branch and the number of sheets scored
detect_parser(registry, sheets, file_info) ==
  IF sheets = <<>> THEN NoBest @@ [returned |-> "None"]
  ELSE Accept(ScoreSheets(registry, sheets, 1, file_info, NoBest))

-----------------------------------------------------------------------------
(* Extractors: parse_sheet of each registered parser.  A Transaction is    *)
(* kept to the fields the properties below speak about; the other fields   *)
(* are straight copies of cells and influence no control flow.             *)

Transaction(transaction_date, amount, amount_tenge, direction, statement_bank, account_number) ==
  [transaction_date |-> transaction_date, amount |-> amount, amount_tenge |-> amount_tenge,
   direction |-> direction, statement_bank |-> statement_bank,
   account_number |-> account_number]

NoTxn == Transaction(NoText, None, None, "None", "", "None")

\* parse_sheet left by an exception
Raised ==
  [raised |-> TRUE, transactions |-> <<>>, account_number |-> "None",
   warnings |-> <<>>, errors |-> <<>>]

\* parse_sheet returning (transactions, metadata)
Returned(transactions, account_number, warnings, errors) ==
  [raised |-> FALSE, transactions |-> transactions, account_number |-> account_number,
   warnings |-> warnings, errors |-> errors]

\* _get(row, idx); idx is 1-based, 0 stands for a key missing from col_map
_get(row, idx) == IF idx = 0 \/ idx > Len(row) THEN NoneCell ELSE row[idx]

\* not row or all(c is None for c in row)
AllNone(row) == \A i \in 1..Len(row) : row[i].k = "none"

\* clean_string as a text: "" for None and for the empty string; the string
\* of a number or a date contains no marker and is "" here as well
clean_string(c) == IF c.k = "txt" THEN c.p ELSE ""

\* col_map[key] after the loop over the header cells: lab[i] is the key the
\* if/elif chain gives cell i together with the way it is stored, "set"
\* (col_map[key] = i, the last one wins) or "default" (col_map.setdefault)
ColOf(lab, key) ==
  LET S == {i \in 1..Len(lab) : lab[i] = <<key, "set">>}
      D == {i \in 1..Len(lab) : lab[i] = <<key, "default">>}
  IN IF S # {} THEN CHOOSE i \in S : \A j \in S : j <= i
     ELSE IF D # {} THEN CHOOSE i \in D : \A j \in D : i <= j
     ELSE 0

\* one pass of the loop over the data rows: the row is skipped (continue),
\* raises, or appends a transaction
RowSkip == [skip |-> TRUE, raised |-> FALSE, t |-> NoTxn]

RowRaise == [skip |-> FALSE, raised |-> TRUE, t |-> NoTxn]

RowEmit(t) == [skip |-> FALSE, raised |-> FALSE, t |-> t]

RECURSIVE Emitted(_)
Emitted(rs) ==
  IF rs = <<>> THEN <<>>
  ELSE (IF Head(rs).skip THEN <<>> ELSE <<Head(rs).t>>) \o Emitted(Tail(rs))

\* the loop over the data rows followed by the final return
RowLoop(rs, account_number, warnings) ==
  IF \E i \in 1..Len(rs) : rs[i].raised THEN Raised
  ELSE Returned(Emitted(rs), account_number, warnings, <<>>)

\* rows[data_start:], data_start 1-based
RowsFrom(rows, data_start) ==
  IF data_start > Len(rows) THEN <<>> ELSE SubSeq(rows, data_start, Len(rows))

\* credit or debit: Python `or` on two Optional[float]
Or(a, b) == IF Nonzero(a) THEN a ELSE b

\* ---- Standard18ColParser ----

VTB == "DO AO Bank VTB (Kazahstan)"

Shinhan == "AO Shinhan Bank Kazahstan"

HomeCredit == "AO Home Credit Bank"

FreedomFinance == "AO Bank Fridom Finans Kazahstan"

FreedomBank == "AO Fridom Bank Kazahstan"

\* the bank a cell names in _detect_bank_name, "" when it names none
BankOfCell(c) ==
  IF ~Truthy(c) THEN ""
  ELSE IF Has(c, "cs:VTBAKZKA") THEN VTB
  ELSE IF Has(c, "cs:SHBKKZKA") THEN Shinhan
  ELSE IF Has(c, "ru:vtb") THEN VTB
  ELSE IF Has(c, "shinhan") \/ Has(c, "ru:shinhan") THEN Shinhan
  ELSE IF Has(c, "home credit") \/ Has(c, "houm kredit") THEN HomeCredit
  ELSE IF Has(c, "fridom finans") THEN FreedomFinance
  ELSE IF Has(c, "fridom") /\ Has(c, "bank") THEN FreedomBank
  ELSE ""

_detect_bank_name(sheet, file_info) ==
  LET header_idx == _find_header_idx(sheet.rows)
      h0 == IF header_idx = 0 THEN 0 ELSE header_idx - 1
      cells == Cells(Take(sheet.rows, h0 + 10))
      hits == {i \in 1..Len(cells) : BankOfCell(cells[i]) # ""}
      folder == file_info.folder_name
  IN
  IF hits # {} THEN BankOfCell(cells[CHOOSE i \in hits : \A j \in hits : i <= j])
  ELSE IF In("ru:vtb", folder) \/ In("vtb", folder) THEN VTB
  ELSE IF In("ru:shinhan", folder) \/ In("shinhan", folder) THEN Shinhan
  ELSE IF In("home credit", folder) \/ In("houm", folder) THEN HomeCredit
  ELSE IF In("fridom finans", folder) THEN FreedomFinance
  ELSE IF In("fridom bank", folder) \/ In("fridom", folder) THEN FreedomBank
  ELSE IF folder # "" THEN folder
  ELSE "Neizvestnyj bank"

\* c == int(c) for a number held in hundredths
IsWhole(c) == (c.k = "num" /\ c.n % 100 = 0) \/ c.k = "big"

\* _find_data_start, 1-based
_find_data_start(rows, header_idx) ==
  LET next_row == header_idx + 1 IN
  IF /\ next_row <= Len(rows)
     /\ \E i \in 1..Len(rows[next_row]) : rows[next_row][i].k # "none"
     /\ \A i \in 1..Len(rows[next_row]) :
          rows[next_row][i].k # "none" => IsWhole(rows[next_row][i])
    THEN next_row + 1
    ELSE next_row

_determine_direction_from_op(op_type) ==
  IF op_type = "" THEN "None"
  ELSE IF In("vhodyashch", op_type) THEN "Prihod"
  ELSE IF In("ishodyashch", op_type) THEN "Rashod"
  ELSE IF In("zachislenie", op_type) \/ In("popolnenie", op_type) THEN "Prihod"
  ELSE IF In("spisanie", op_type) \/ In("snyatie", op_type) THEN "Rashod"
  ELSE "None"

_extract_account(sheet_name, filename) ==
  IF IbanOf(sheet_name) # "None" THEN IbanOf(sheet_name) ELSE IbanOf(filename)

\* the if/elif chain of the column map, up to the last key modelled
Standard18Col_label(header, i) ==
  LET h == header[i]
      isDate(c) == THas(c, "data i vremya") \/ THas(c, "=data operacii")
  IN
  IF isDate(h) THEN <<"date", "set">>
  ELSE IF THas(h, "valyuta operacii")
          \/ (THas(h, "=valyuta") /\ \E j \in 1..(i - 1) : isDate(header[j]))
    THEN <<"currency", "set">>
  ELSE IF THas(h, "vidy operacii") \/ THas(h, "vid operacii") \/ THas(h, "kategoriya")
    THEN <<"operation_type", "set">>
  ELSE IF THas(h, "naimenovanie sdp") THEN <<"sdp", "set">>
  ELSE IF THas(h, "summa v valyute") \/ THas(h, "=summa (val.)") THEN <<"amount", "set">>
  ELSE IF THas(h, "summa v tenge") \/ THas(h, "=summa (tenge)") THEN <<"amount_tenge", "set">>
  ELSE <<"other", "set">>

Standard18Col_row(row, lab, bank_name, account) ==
  LET date_val == _get(row, ColOf(lab, "date"))
      op_type == clean_string(_get(row, ColOf(lab, "operation_type")))
      direction == _determine_direction_from_op(op_type)
      amount_cell == _get(row, ColOf(lab, "amount"))
      tenge_cell == _get(row, ColOf(lab, "amount_tenge"))
      amount_val == normalize_amount(amount_cell)
      amount_tenge_val == normalize_amount(tenge_cell)
      negative == (amount_val.some /\ amount_val.v < 0)
                  \/ (amount_tenge_val.some /\ amount_tenge_val.v < 0)
  IN
  IF AllNone(row) \/ date_val.k = "none" THEN RowSkip
  ELSE IF normalize_amount_raises(amount_cell) \/ normalize_amount_raises(tenge_cell)
    THEN RowRaise
  ELSE RowEmit(Transaction(normalize_date(date_val),
                           normalize_amount_abs(amount_cell), normalize_amount_abs(tenge_cell),
                           IF negative /\ direction = "None" THEN "Rashod" ELSE direction,
                           bank_name, account))

\* Standard18ColParser.parse_sheet; bank_name is also what the call assigns
\* to self.BANK_NAME
Standard18Col_parse_sheet(sheet, file_info) ==
  LET rows == sheet.rows
      header_idx == _find_header_idx(rows)
      header == rows[header_idx]
      lab == [i \in 1..Len(header) |-> Standard18Col_label(header, i)]
      bank_name == _detect_bank_name(sheet, file_info)
      account == _extract_account(sheet.name, file_info.filename)
      data == RowsFrom(rows, _find_data_start(rows, header_idx))
  IN
  IF header_idx = 0 THEN Returned(<<>>, "None", <<>>, <<"Header row not found">>)
  ELSE RowLoop([r \in 1..Len(data) |-> Standard18Col_row(data[r], lab, bank_name, account)],
               account, <<>>)

\* ---- NarodnyBankParser ----

NarodnyBank_BANK_NAME == "AO Narodnyj sberegatel'nyj bank Kazahstana"

HEADER_MARKERS ==
  <<"data i vremya operacii", "summa v valyute", "po kreditu", "po debetu", "platel'shchik">>

\* BaseParser.find_header_row: the first of the first max_rows rows in which
\* at least 60% of the markers occur; 1-based, 0 for None
find_header_row(rows, marker_columns, max_rows) ==
  LET top == Take(rows, max_rows)
      matches(row) ==
        Cardinality({j \in 1..Len(marker_columns) : RowAnyHas(row, marker_columns[j])})
  IN FirstTrue([i \in 1..Len(top) |-> 10 * matches(top[i]) >= 6 * Len(marker_columns)])

\* s.startswith('KZ') and len(s) >= 18
IsKzCell(c) == c.k = "txt" /\ KzTextOf(c.p) # "None"

NarodnyBank_label(h) ==
  IF THas(h, "data i vremya") THEN <<"date", "set">>
  ELSE IF THas(h, "valyuta") /\ THas(h, "operacii") THEN <<"currency", "set">>
  ELSE IF THas(h, "vidy operacii") \/ THas(h, "vid operacii") \/ THas(h, "kategoriya")
    THEN <<"operation_type", "set">>
  ELSE IF THas(h, "naimenovanie sdp") THEN <<"sdp", "set">>
  ELSE IF THas(h, "po kreditu") /\ THas(h, "summa") /\ THas(h, "valyute")
    THEN <<"credit_amount", "set">>
  ELSE IF THas(h, "po debetu") /\ THas(h, "summa") /\ THas(h, "valyute")
    THEN <<"debit_amount", "set">>
  ELSE IF THas(h, "po kreditu") /\ THas(h, "tenge") THEN <<"credit_tenge", "set">>
  ELSE IF THas(h, "po debetu") /\ THas(h, "tenge") THEN <<"debit_tenge", "set">>
  ELSE <<"other", "set">>

NarodnyBank_row(row, lab, account_number) ==
  LET date_val == _get(row, ColOf(lab, "date"))
      summary == \E w \in {"itogo", "vhodyashchij", "ishodyashchij", "ostatok", "vsego"} :
                    Has(date_val, w)
      cells == [k \in {"credit_amount", "debit_amount", "credit_tenge", "debit_tenge"} |->
                  _get(row, ColOf(lab, k))]
      credit_amt == normalize_amount(cells["credit_amount"])
      debit_amt == normalize_amount(cells["debit_amount"])
      credit_tenge == normalize_amount(cells["credit_tenge"])
      debit_tenge == normalize_amount(cells["debit_tenge"])
  IN
  IF AllNone(row) \/ date_val.k = "none" \/ summary THEN RowSkip
  ELSE IF \E k \in DOMAIN cells : normalize_amount_raises(cells[k]) THEN RowRaise
  ELSE RowEmit(Transaction(normalize_date(date_val),
                           Or(credit_amt, debit_amt), Or(credit_tenge, debit_tenge),
                           determine_direction(AsCell(debit_amt), AsCell(credit_amt), "", ""),
                           NarodnyBank_BANK_NAME, account_number))

NarodnyBank_parse_sheet(sheet, file_info) ==
  LET rows == sheet.rows
      top == Cells(Take(rows, 10))
      found == {i \in 1..Len(top) : IsKzCell(top[i])}
      header_idx == find_header_row(rows, HEADER_MARKERS, 30)
      header == rows[header_idx]
      lab == [i \in 1..Len(header) |-> NarodnyBank_label(header[i])]
      \* rows before the header: the first KZ cell of the last row that has one
      before == {r \in 1..(header_idx - 1) : \E i \in 1..Len(rows[r]) : IsKzCell(rows[r][i])}
      lastRow == rows[CHOOSE r \in before : \A q \in before : q <= r]
      firstCell == CHOOSE i \in 1..Len(lastRow) :
                     IsKzCell(lastRow[i]) /\ \A j \in 1..(i - 1) : ~IsKzCell(lastRow[j])
      account_number ==
        IF found # {} THEN KzTextOf(top[CHOOSE i \in found : \A j \in found : j <= i].p)
        ELSE IF before # {} THEN KzTextOf(lastRow[firstCell].p)
        ELSE "None"
      next == header_idx + 1
      numbered == /\ next <= Len(rows)
                  /\ \E i \in 1..Len(rows[next]) : rows[next][i].k # "none"
                  /\ \A i \in 1..Len(rows[next]) : rows[next][i].k \in {"none", "num", "big"}
      data == RowsFrom(rows, IF numbered THEN next + 1 ELSE next)
  IN
  IF header_idx = 0 THEN Returned(<<>>, "None", <<>>, <<"Header row not found">>)
  ELSE RowLoop([r \in 1..Len(data) |-> NarodnyBank_row(data[r], lab, account_number)],
               account_number, <<>>)

\* ---- KaspiStatementParser ----

Kaspi_BANK_NAME == "AO Kaspi Bank"

KaspiStatement_label(h) ==
  IF THas(h, "data") /\ THas(h, "operac") THEN <<"date", "set">>
  ELSE IF THas(h, "=data") \/ THas(h, "data oper") THEN <<"date", "default">>
  ELSE IF THas(h, "valyuta") THEN <<"currency", "set">>
  ELSE IF THas(h, "vidy operacii") \/ THas(h, "kategoriya dokumenta")
    THEN <<"operation_type", "set">>
  ELSE IF THas(h, "summa") /\ (THas(h, "valyut") \/ (~THas(h, "tenge") /\ ~THas(h, "nb")))
    THEN <<"amount", "set">>
  ELSE IF THas(h, "summa") /\ (THas(h, "tenge") \/ THas(h, "nb")) THEN <<"amount_tenge", "set">>
  ELSE IF THas(h, "napravlen") THEN <<"direction", "set">>
  ELSE <<"other", "set">>

\* str(c).strip().isdigit() or c is None; a whole number is the int the
\* workbook reader returns for it
IsDigitCell(c) ==
  \/ c.k = "none"
  \/ c.k = "big"
  \/ (c.k = "num" /\ c.n >= 0 /\ c.n % 100 = 0)
  \/ (c.k = "txt" /\ IsDigits(c.p))

KaspiStatement_row(row, lab, account_number) ==
  LET date_val == _get(row, ColOf(lab, "date"))
      summary == \E w \in {"itogo", "ostatok", "vhodyashchij", "ishodyashchij"} :
                    Has(date_val, w)
      raw_dir == clean_string(_get(row, ColOf(lab, "direction")))
      op_type == clean_string(_get(row, ColOf(lab, "operation_type")))
      explicit == IF raw_dir # "" THEN determine_direction(NoneCell, NoneCell, "", raw_dir)
                  ELSE "None"
      direction ==
        IF explicit # "None" \/ op_type = "" THEN explicit
        ELSE IF In("debet", op_type) \/ In("ish", op_type) THEN "Rashod"
        ELSE IF In("kredit", op_type) \/ In("vh", op_type) THEN "Prihod"
        ELSE "None"
      amount_cell == _get(row, ColOf(lab, "amount"))
      tenge_cell == _get(row, ColOf(lab, "amount_tenge"))
  IN
  IF AllNone(row) \/ date_val.k = "none" \/ summary THEN RowSkip
  ELSE IF normalize_amount_raises(amount_cell) \/ normalize_amount_raises(tenge_cell)
    THEN RowRaise
  ELSE RowEmit(Transaction(normalize_date(date_val),
                           normalize_amount(amount_cell), normalize_amount(tenge_cell),
                           direction, Kaspi_BANK_NAME, account_number))

\* the header search of KaspiStatementParser.parse_sheet; 1-based, 0 for None
KaspiStatement_header_idx(rows) ==
  LET first25 == Take(rows, 25)
  IN FirstTrue([i \in 1..Len(first25) |->
       \/ RowHas(first25[i], "data")
          /\ (RowHas(first25[i], "platel'shchik") \/ RowHas(first25[i], "poluchatel"))
       \/ RowHas(first25[i], "data") /\ RowHas(first25[i], "valyuta")
          /\ RowHas(first25[i], "summa")])

KaspiStatement_parse_sheet(sheet, file_info) ==
  LET rows == sheet.rows
      top == Cells(Take(rows, 15))
      found == {i \in 1..Len(top) : top[i].k = "txt" /\ IbanOf(top[i].p) # "None"}
      account_number ==
        IF found = {} THEN "None"
        ELSE IbanOf(top[CHOOSE i \in found : \A j \in found : j <= i].p)
      header_idx == KaspiStatement_header_idx(rows)
      header == rows[header_idx]
      lab == [i \in 1..Len(header) |-> KaspiStatement_label(header[i])]
      \* the row after the header is taken for a sub-header when any of its
      \* cells is truthy
      sub == /\ header_idx + 1 <= Len(rows)
             /\ \E i \in 1..Len(rows[header_idx + 1]) : Truthy(rows[header_idx + 1][i])
      start == IF sub THEN header_idx + 2 ELSE header_idx + 1
      numbering == /\ start <= Len(rows)
                   /\ Len(rows[start]) > 0
                   /\ \A i \in 1..Len(rows[start]) : IsDigitCell(rows[start][i])
      data == RowsFrom(rows, IF numbering THEN start + 1 ELSE start)
  IN
  IF header_idx = 0 THEN Returned(<<>>, account_number, <<>>, <<"Header not found">>)
  ELSE RowLoop([r \in 1..Len(data) |-> KaspiStatement_row(data[r], lab, account_number)],
               account_number, <<>>)

\* ---- KaspiStatisticsParser ----

KaspiStatistics_label(h) ==
  IF THas(h, "data") THEN <<"date", "set">>
  ELSE IF THas(h, "summa") THEN <<"amount", "set">>
  ELSE IF THas(h, "bin") /\ ~THas(h, "bank") /\ ~THas(h, "ekvajer") THEN <<"bin", "set">>
  ELSE IF THas(h, "naimenovanie") THEN <<"name", "set">>
  ELSE IF THas(h, "tip operacii") THEN <<"type", "set">>
  ELSE <<"other", "set">>

KaspiStatistics_row(row, lab) ==
  LET date_val == _get(row, ColOf(lab, "date"))
      op_type == clean_string(_get(row, ColOf(lab, "type")))
      amount_cell == _get(row, ColOf(lab, "amount"))
  IN
  IF AllNone(row) \/ date_val.k = "none" THEN RowSkip
  ELSE IF normalize_amount_raises(amount_cell) THEN RowRaise
  ELSE RowEmit(Transaction(normalize_date(date_val),
                           normalize_amount(amount_cell), normalize_amount(amount_cell),
                           determine_direction(NoneCell, NoneCell, "", op_type),
                           Kaspi_BANK_NAME, "None"))

\* the header search of KaspiStatisticsParser.parse_sheet; 1-based, 0 for None
KaspiStatistics_header_idx(rows) ==
  LET first10 == Take(rows, 10)
  IN FirstTrue([i \in 1..Len(first10) |->
       RowHas(first10[i], "data")
       /\ (RowHas(first10[i], "summa") \/ RowHas(first10[i], "bin"))])

KaspiStatistics_parse_sheet(sheet, file_info) ==
  LET rows == sheet.rows
      warnings == <<"Kaspi statistics format">>
      header_idx == KaspiStatistics_header_idx(rows)
      header == rows[header_idx]
      lab == [i \in 1..Len(header) |-> KaspiStatistics_label(header[i])]
      data == RowsFrom(rows, header_idx + 1)
  IN
  IF header_idx = 0 THEN Returned(<<>>, "None", warnings, <<"No parseable header">>)
  ELSE RowLoop([r \in 1..Len(data) |-> KaspiStatistics_row(data[r], lab)], "None", warnings)

\* ---- AlatauCityParser ----

AlatauCity_BANK_NAME == "AO Alatau City Bank"

AlatauCity_label(h) ==
  IF THas(h, "data") THEN <<"date", "set">>
  ELSE IF THas(h, "debetovyj oborot") \/ (THas(h, "debet") /\ THas(h, "oborot"))
    THEN <<"debit", "set">>
  ELSE IF THas(h, "kreditovyj oborot") \/ (THas(h, "kredit") /\ THas(h, "oborot"))
    THEN <<"credit", "set">>
  ELSE <<"other", "set">>

AlatauCity_row(row, lab, account_number) ==
  LET date_val == _get(row, ColOf(lab, "date"))
      summary == Has(date_val, "itogo") \/ Has(date_val, "ostatok")
      debit_cell == _get(row, ColOf(lab, "debit"))
      credit_cell == _get(row, ColOf(lab, "credit"))
      debit == normalize_amount(debit_cell)
      credit == normalize_amount(credit_cell)
      amount == Or(credit, debit)
  IN
  IF AllNone(row) \/ date_val.k = "none" \/ summary THEN RowSkip
  ELSE IF normalize_amount_raises(debit_cell) \/ normalize_amount_raises(credit_cell)
    THEN RowRaise
  ELSE RowEmit(Transaction(normalize_date(date_val),
                           amount, amount,
                           determine_direction(AsCell(debit), AsCell(credit), "", ""),
                           AlatauCity_BANK_NAME, account_number))

\* the header search of AlatauCityParser.parse_sheet; 1-based, 0 for None
AlatauCity_header_idx(rows) ==
  LET first20 == Take(rows, 20)
  IN FirstTrue([i \in 1..Len(first20) |->
       \/ RowHas(first20[i], "data")
          /\ (RowHas(first20[i], "debet") \/ RowHas(first20[i], "kredit")
              \/ RowHas(first20[i], "oborot"))
       \/ RowHas(first20[i], "platel'shchik") \/ RowHas(first20[i], "poluchatel'")])

AlatauCity_parse_sheet(sheet, file_info) ==
  LET rows == sheet.rows
      account_number == Iban22Of(file_info.filename)
      header_idx == AlatauCity_header_idx(rows)
      header == rows[header_idx]
      lab == [i \in 1..Len(header) |-> AlatauCity_label(header[i])]
      data == RowsFrom(rows, header_idx + 1)
  IN
  IF header_idx = 0 THEN Returned(<<>>, account_number, <<"No data rows found">>, <<>>)
  ELSE RowLoop([r \in 1..Len(data) |-> AlatauCity_row(data[r], lab, account_number)],
               account_number, <<>>)

\* ---- TsesnabankParser ----

Tsesnabank_BANK_NAME == "AO Cesnabank"

Tsesnabank_label(h) ==
  IF THas(h, "data") /\ THas(h, "operac") THEN <<"date", "set">>
  ELSE IF THas(h, "=data") THEN <<"date", "set">>
  ELSE IF THas(h, "summa") THEN <<"amount", "set">>
  ELSE IF THas(h, "valyuta") THEN <<"currency", "set">>
  ELSE IF THas(h, "kontragent") \/ THas(h, "korrespondent") \/ THas(h, "naimenovanie")
    THEN <<"counterparty", "set">>
  ELSE IF THas(h, "iin") \/ THas(h, "bin") THEN <<"iin", "set">>
  ELSE IF THas(h, "naznachenie") THEN <<"purpose", "set">>
  ELSE IF THas(h, "schet") /\ THas(h, "korresp") THEN <<"corr_account", "set">>
  ELSE <<"other", "set">>

Tsesnabank_row(row, lab, direction, account_number) ==
  LET date_val == _get(row, ColOf(lab, "date"))
      summary == Has(date_val, "itogo") \/ Has(date_val, "ostatok")
      amount_cell == _get(row, ColOf(lab, "amount"))
  IN
  IF AllNone(row) \/ date_val.k = "none" \/ summary THEN RowSkip
  ELSE IF normalize_amount_raises(amount_cell) THEN RowRaise
  ELSE RowEmit(Transaction(normalize_date(date_val),
                           normalize_amount(amount_cell), normalize_amount(amount_cell),
                           direction, Tsesnabank_BANK_NAME, account_number))

\* the header search of TsesnabankParser.parse_sheet; 1-based, 0 for None
Tsesnabank_header_idx(rows) ==
  LET first20 == Take(rows, 20)
  IN FirstTrue([i \in 1..Len(first20) |->
       \/ RowHas(first20[i], "data")
          /\ (RowHas(first20[i], "summa") \/ RowHas(first20[i], "naznachenie"))
       \/ RowHas(first20[i], "kontragent") \/ RowHas(first20[i], "korrespondent")])

Tsesnabank_parse_sheet(sheet, file_info) ==
  LET rows == sheet.rows
      direction == IF In("kredit", sheet.name) THEN "Prihod"
                   ELSE IF In("debet", sheet.name) THEN "Rashod"
                   ELSE "None"
      top == Cells(Take(rows, 15))
      found == {i \in 1..Len(top) : top[i].k = "txt" /\ Iban22Of(top[i].p) # "None"}
      account_number ==
        IF found = {} THEN "None"
        ELSE Iban22Of(top[CHOOSE i \in found : \A j \in found : j <= i].p)
      header_idx == Tsesnabank_header_idx(rows)
      header == rows[header_idx]
      lab == [i \in 1..Len(header) |-> Tsesnabank_label(header[i])]
      data == RowsFrom(rows, header_idx + 1)
  IN
  IF header_idx = 0 THEN Returned(<<>>, account_number, <<>>, <<"Header not found">>)
  ELSE RowLoop([r \in 1..Len(data) |-> Tsesnabank_row(data[r], lab, direction, account_number)],
               account_number, <<>>)

\* ---- DeltaBankParser ----

DeltaBank_BANK_NAME == "AO Delta Bank"

DeltaBank_label(h) ==
  IF THas(h, "naimenovanie") \/ THas(h, "fio") THEN <<"name", "set">>
  ELSE IF THas(h, "bin") \/ THas(h, "iin") THEN <<"iin", "set">>
  ELSE IF THas(h, "data") THEN <<"date", "set">>
  ELSE IF THas(h, "summ") THEN <<"amount", "set">>
  ELSE <<"other", "set">>

DeltaBank_row(row, lab, direction, currency) ==
  LET date_val == _get(row, ColOf(lab, "date"))
      amount_cell == _get(row, ColOf(lab, "amount"))
      amount == normalize_amount(amount_cell)
  IN
  IF AllNone(row) \/ date_val.k = "none" THEN RowSkip
  ELSE IF normalize_amount_raises(amount_cell) THEN RowRaise
  ELSE IF ~amount.some THEN RowSkip
  ELSE RowEmit(Transaction(normalize_date(date_val),
                           amount, IF currency = "KZT" THEN amount ELSE None,
                           direction, DeltaBank_BANK_NAME, "None"))

\* the header search of DeltaBankParser.parse_sheet; 1-based, 0 for None
DeltaBank_header_idx(rows) ==
  LET first10 == Take(rows, 10)
  IN FirstTrue([i \in 1..Len(first10) |->
       RowHas(first10[i], "No")
       /\ (RowHas(first10[i], "naimenovanie") \/ RowHas(first10[i], "data"))])

DeltaBank_parse_sheet(sheet, file_info) ==
  LET rows == sheet.rows
      byName == IF In("vhodyashch", sheet.name) THEN "Prihod"
                ELSE IF In("ishodyashch", sheet.name) THEN "Rashod"
                ELSE "None"
      top == Cells(Take(rows, 5))
      said == {i \in 1..Len(top) : THas(top[i], "vhodyashchie") \/ THas(top[i], "ishodyashchie")}
      last == top[CHOOSE i \in said : \A j \in said : j <= i]
      direction == IF said = {} THEN byName
                   ELSE IF THas(last, "vhodyashchie") THEN "Prihod" ELSE "Rashod"
      currency == IF In("valyuta", sheet.name) \/ In("usd", sheet.name) THEN "USD"
                  ELSE IF In("eur", sheet.name) THEN "EUR"
                  ELSE "KZT"
      header_idx == DeltaBank_header_idx(rows)
      header == rows[header_idx]
      lab == [i \in 1..Len(header) |-> DeltaBank_label(header[i])]
      data == RowsFrom(rows, header_idx + 1)
  IN
  IF header_idx = 0 THEN Returned(<<>>, "None", <<>>, <<>>)
  ELSE RowLoop([r \in 1..Len(data) |-> DeltaBank_row(data[r], lab, direction, currency)],
               "None", <<>>)

\* parser_cls().parse_sheet(sheet, file_info)
parse_sheet(parser_cls, sheet, file_info) ==
  CASE parser_cls = "Standard18ColParser" -> Standard18Col_parse_sheet(sheet, file_info)
    [] parser_cls = "NarodnyBankParser" -> NarodnyBank_parse_sheet(sheet, file_info)
    [] parser_cls = "KaspiStatementParser" -> KaspiStatement_parse_sheet(sheet, file_info)
    [] parser_cls = "KaspiStatisticsParser" -> KaspiStatistics_parse_sheet(sheet, file_info)
    [] parser_cls = "AlatauCityParser" -> AlatauCity_parse_sheet(sheet, file_info)
    [] parser_cls = "TsesnabankParser" -> Tsesnabank_parse_sheet(sheet, file_info)
    [] parser_cls = "DeltaBankParser" -> DeltaBank_parse_sheet(sheet, file_info)

-----------------------------------------------------------------------------
(* Orchestrator: parse() of the parsers and process_file.  The attributes  *)
(* of the parser classes are passed along explicitly (class_attrs maps a   *)
(* class to its BANK_NAME), so that a write to them would show.            *)

\* ParseResult(filepath=filepath, source_file=filename).  An error or a
\* warning is kept as its constant text; the exception text or sheet name
\* the source appends to it is dropped.
ParseResult(source_file) ==
  [source_file |-> source_file, bank_detected |-> "None", parser_used |-> "None",
   account_number |-> "None", parse_status |-> "pending", total_transactions |-> 0,
   errors |-> <<>>, warnings |-> <<>>, transactions |-> <<>>]

\* the BANK_NAME attribute of each class once the parser modules are imported
ClassAttrsAfterImport ==
  [c \in {"Standard18ColParser", "NarodnyBankParser", "KaspiStatementParser",
          "KaspiStatisticsParser", "AlatauCityParser", "TsesnabankParser",
          "DeltaBankParser"} |->
     CASE c = "Standard18ColParser" -> ""
       [] c = "NarodnyBankParser" -> NarodnyBank_BANK_NAME
       [] c = "KaspiStatementParser" -> Kaspi_BANK_NAME
       [] c = "KaspiStatisticsParser" -> Kaspi_BANK_NAME
       [] c = "AlatauCityParser" -> AlatauCity_BANK_NAME
       [] c = "TsesnabankParser" -> Tsesnabank_BANK_NAME
       [] c = "DeltaBankParser" -> DeltaBank_BANK_NAME]

\* the assignment written on the class instead of the instance
assign_BANK_NAME_on_class(class_attrs, parser_cls, bank_name) ==
  [class_attrs EXCEPT ![parser_cls] = bank_name]

\* self.BANK_NAME = bank_name: sets an attribute of the parser instance,
\* which process_file creates anew for each file; the classes keep theirs
assign_BANK_NAME(class_attrs, parser_cls, bank_name) == class_attrs

\* the class attributes after parse_sheet has run on a sheet
AttrsAfterSheet(class_attrs, parser_cls, sheet, file_info) ==
  IF parser_cls = "Standard18ColParser" /\ _find_header_idx(sheet.rows) # 0
    THEN assign_BANK_NAME(class_attrs, parser_cls, _detect_bank_name(sheet, file_info))
    ELSE class_attrs

\* one pass of the loop of BaseParser.parse: what parse_sheet returned, or
\* the exception it raised, folded into the result so far
AfterParseSheet(acc, out, attrs) ==
  IF out.raised
    THEN [acc EXCEPT !.errors = Append(@, "Error parsing sheet"), !.class_attrs = attrs]
    ELSE [transactions |-> acc.transactions \o out.transactions,
          account_number |-> IF out.account_number # "None"
                               THEN out.account_number ELSE acc.account_number,
          warnings |-> acc.warnings \o out.warnings,
          errors |-> acc.errors \o out.errors,
          class_attrs |-> attrs]

\* the loop of BaseParser.parse over the sheets
RECURSIVE BaseParser_sheets(_, _, _, _)
BaseParser_sheets(parser_cls, sheets, file_info, acc) ==
  IF sheets = <<>> THEN acc
  ELSE BaseParser_sheets(parser_cls, Tail(sheets), file_info,
         AfterParseSheet(acc, parse_sheet(parser_cls, Head(sheets), file_info),
                         AttrsAfterSheet(acc.class_attrs, parser_cls, Head(sheets), file_info)))

\* parse_status as BaseParser.parse derives it
BaseParser_status(transactions, errors) ==
  IF transactions # <<>>
    THEN (IF errors # <<>> THEN "partial" ELSE "success")
    ELSE (IF errors # <<>> THEN "failed" ELSE "skipped")

\* BaseParser.parse without its assignment to total_transactions: the count
\* stays at the default of ParseResult
BaseParser_resultNoCount(parser_cls, file_info, class_attrs, acc) ==
  [raised |-> FALSE,
   class_attrs |-> acc.class_attrs,
   result |-> [ParseResult(file_info.filename) EXCEPT
                 !.bank_detected = class_attrs[parser_cls],
                 !.parser_used = parser_cls,
                 !.account_number = acc.account_number,
                 !.warnings = acc.warnings,
                 !.errors = acc.errors,
                 !.transactions = acc.transactions,
                 !.parse_status = BaseParser_status(acc.transactions, acc.errors)]]

\* the ParseResult BaseParser.parse returns once the loop is over
BaseParser_result(parser_cls, file_info, class_attrs, acc) ==
  [raised |-> FALSE,
   class_attrs |-> acc.class_attrs,
   result |-> [ParseResult(file_info.filename) EXCEPT
                 !.bank_detected = class_attrs[parser_cls],
                 !.parser_used = parser_cls,
                 !.account_number = acc.account_number,
                 !.warnings = acc.warnings,
                 !.errors = acc.errors,
                 !.transactions = acc.transactions,
                 !.total_transactions = Len(acc.transactions),
                 !.parse_status = BaseParser_status(acc.transactions, acc.errors)]]

\* BaseParser.parse
BaseParser_parse(parser_cls, sheets, file_info, class_attrs) ==
  BaseParser_result(parser_cls, file_info, class_attrs,
    BaseParser_sheets(parser_cls, sheets, file_info,
      [transactions |-> <<>>, account_number |-> "None", warnings |-> <<>>,
       errors |-> <<>>, class_attrs |-> class_attrs]))

\* one pass of the loop of DeltaBankParser.parse: no try around parse_sheet,
\* the warnings and errors of the sheet dropped
DeltaBank_after(acc, out) ==
  IF out.raised THEN [acc EXCEPT !.raised = TRUE]
  ELSE [acc EXCEPT !.transactions = @ \o out.transactions,
                   !.account_number = IF out.account_number # "None"
                                        THEN out.account_number ELSE @]

\* the loop of DeltaBankParser.parse over the sheets
RECURSIVE DeltaBank_sheets(_, _, _)
DeltaBank_sheets(sheets, file_info, acc) ==
  IF sheets = <<>> \/ acc.raised THEN acc
  ELSE DeltaBank_sheets(Tail(sheets), file_info,
         DeltaBank_after(acc, DeltaBank_parse_sheet(Head(sheets), file_info)))

\* the ParseResult DeltaBankParser.parse returns, or the exception that
\* leaves it: 'failed' whenever there is no transaction
DeltaBank_result(parser_cls, file_info, class_attrs, acc) ==
  IF acc.raised
    THEN [raised |-> TRUE, class_attrs |-> class_attrs,
          result |-> ParseResult(file_info.filename)]
    ELSE [raised |-> FALSE, class_attrs |-> class_attrs,
          result |-> [ParseResult(file_info.filename) EXCEPT
                        !.bank_detected = class_attrs[parser_cls],
                        !.parser_used = parser_cls,
                        !.account_number = acc.account_number,
                        !.transactions = acc.transactions,
                        !.total_transactions = Len(acc.transactions),
                        !.parse_status = IF acc.transactions # <<>> THEN "success"
                                         ELSE "failed"]]

\* DeltaBankParser.parse
DeltaBank_parse(parser_cls, sheets, file_info, class_attrs) ==
  DeltaBank_result(parser_cls, file_info, class_attrs,
    DeltaBank_sheets(sheets, file_info,
      [transactions |-> <<>>, account_number |-> "None", warnings |-> <<>>,
       errors |-> <<>>, class_attrs |-> class_attrs, raised |-> FALSE]))

\* the loop of TsesnabankParser.parse over the sheets: as DeltaBankParser's,
\* no try around parse_sheet, the warnings and errors of the sheet dropped
RECURSIVE Tsesnabank_sheets(_, _, _)
Tsesnabank_sheets(sheets, file_info, acc) ==
  IF sheets = <<>> \/ acc.raised THEN acc
  ELSE Tsesnabank_sheets(Tail(sheets), file_info,
         DeltaBank_after(acc, Tsesnabank_parse_sheet(Head(sheets), file_info)))

\* TsesnabankParser.parse; the result is built as in DeltaBankParser.parse
Tsesnabank_parse(parser_cls, sheets, file_info, class_attrs) ==
  DeltaBank_result(parser_cls, file_info, class_attrs,
    Tsesnabank_sheets(sheets, file_info,
      [transactions |-> <<>>, account_number |-> "None", warnings |-> <<>>,
       errors |-> <<>>, class_attrs |-> class_attrs, raised |-> FALSE]))

\* parser_cls().parse(sheets, file_info)
parse(parser_cls, sheets, file_info, class_attrs) ==
  IF parser_cls = "DeltaBankParser"
    THEN DeltaBank_parse(parser_cls, sheets, file_info, class_attrs)
  ELSE IF parser_cls = "TsesnabankParser"
    THEN Tsesnabank_parse(parser_cls, sheets, file_info, class_attrs)
  ELSE BaseParser_parse(parser_cls, sheets, file_info, class_attrs)

\* a file on disk: its folder, its name, whether the workbook reader can
\* read it, and the sheets it reads
File(folder_name, filename, readable, sheets) ==
  [folder_name |-> folder_name, filename |-> filename, readable |-> readable,
   sheets |-> sheets]

\* what process_file hands back: whether an exception left it, the result,
\* the class attributes afterwards and the class whose parse() it called
Outcome(exc, result, class_attrs, called) ==
  [escaped |-> exc, result |-> result, class_attrs |-> class_attrs,
   called |-> called]

\* process_file with the parser call outside any try
parse_unguarded(out, result, parser_cls) ==
  IF out.raised THEN Outcome(TRUE, result, out.class_attrs, parser_cls)
  ELSE Outcome(FALSE, out.result, out.class_attrs, parser_cls)

\* try: result = parser.parse(...) except Exception: 'failed', 'Parse error'
parse_guarded(out, result, parser_cls) ==
  IF out.raised
    THEN Outcome(FALSE, [result EXCEPT !.parse_status = "failed",
                                       !.errors = Append(@, "Parse error")],
                 out.class_attrs, parser_cls)
    ELSE Outcome(FALSE, out.result, out.class_attrs, parser_cls)

\* detection failure reported as an empty file
no_parser_skipped(result) ==
  [result EXCEPT !.parse_status = "skipped", !.warnings = Append(@, "Empty file")]

\* if parser_cls is None: 'failed', 'No parser detected'
no_parser(result) ==
  [result EXCEPT !.parse_status = "failed", !.errors = Append(@, "No parser detected")]

\* file_info of process_file
InfoOf(file) == FileInfo(file.filename, ExtensionOf(file.filename), file.folder_name)

\* process_file from the detection on, parser_cls being what detect_parser
\* returned
process_detected(file, class_attrs, result, parser_cls) ==
  IF parser_cls = "None" THEN Outcome(FALSE, no_parser(result), class_attrs, "None")
  ELSE parse_guarded(parse(parser_cls, file.sheets, InfoOf(file), class_attrs), result,
                     parser_cls)

\* process_file(filepath, folder_name)
process_file(file, registry, class_attrs) ==
  LET result == ParseResult(file.filename)
      sheets == file.sheets
  IN
  IF ExtensionOf(file.filename) \notin {".xlsx", ".xls"}
    THEN Outcome(FALSE, [result EXCEPT !.parse_status = "skipped",
                                       !.errors = Append(@, "Unsupported extension")],
                 class_attrs, "None")
  ELSE IF ~file.readable
    THEN Outcome(FALSE, [result EXCEPT !.parse_status = "failed",
                                       !.errors = Append(@, "File read error")],
                 class_attrs, "None")
  ELSE IF sheets = <<>> \/ \A i \in 1..Len(sheets) : num_rows(sheets[i]) = 0
    THEN Outcome(FALSE, [result EXCEPT !.parse_status = "skipped",
                                       !.warnings = Append(@, "Empty file")],
                 class_attrs, "None")
  ELSE process_detected(file, class_attrs, result,
                        detect_parser(registry, sheets, InfoOf(file)).returned)

\* the results process_all collects for the files it visits, in order
RECURSIVE ResultsOf(_, _, _)
ResultsOf(fs, registry, class_attrs) ==
  IF fs = <<>> THEN <<>>
  ELSE LET out == process_file(Head(fs), registry, class_attrs) IN
       <<out.result>> \o ResultsOf(Tail(fs), registry, out.class_attrs)

\* the entries of a bank folder process_all passes to process_file
IsSpreadsheetEntry(f) == ~IsHiddenName(f.filename) /\ EndsWithExcel(f.filename)

\* the orchestrator's variables while another operation is exercised
BatchIdle ==
  /\ files = <<>> /\ mode = "none" /\ pc = "idle" /\ cursor = 0 /\ run = 0
  /\ all_results = <<>> /\ previous = <<>> /\ total_files = 0 /\ success_count = 0
  /\ saved = <<>> /\ calls = <<>> /\ escaped = FALSE
  /\ PARSER_REGISTRY = RegistryAfterImport /\ BANK_NAME = ClassAttrsAfterImport

\* the variables of process_uploaded_file while another operation is exercised
UploadIdle ==
  /\ uploaded_file = Idle /\ folder_hint = "" /\ upload_pc = "idle" /\ tmp_file = "none"
  /\ unlink_called = FALSE /\ upload_result = Idle

-----------------------------------------------------------------------------
(* Sample texts, rows and sheets: the inputs the harnesses draw from *)

TxtRow(ps) == [i \in 1..Len(ps) |-> Txt(ps[i])]

H_Std18 ==
  TxtRow(<<"Data i vremya operacii", "Valyuta operacii",
           "Vidy operacii (kategoriya dokumenta)", "Naimenovanie SDP",
           "Summa v valyute ee provedeniya", "Summa v tenge",
           "Naimenovanie/FIO platel'shchika", "IIN/BIN platel'shchika",
           "Rezidentstvo platel'shchika", "Bank platel'shchika",
           "Nomer scheta platel'shchika", "Naimenovanie/FIO poluchatelya",
           "IIN/BIN poluchatelya", "Rezidentstvo poluchatelya", "Bank poluchatelya",
           "Nomer scheta poluchatelya", "Kod naznacheniya platezha",
           "Naznachenie platezha">>)

\* the VTB variant: "Vid operacii (KD)" and the misspelt "Rezidenstvo"
H_VTB ==
  [H_Std18 EXCEPT ![3] = Txt("Vid operacii (KD)"),
                  ![9] = Txt("Rezidenstvo platel'shchika"),
                  ![14] = Txt("Rezidenstvo poluchatelya")]

\* no operation-kind column: matched on date-and-time plus amount only
H_Std70 == [H_Std18 EXCEPT ![3] = Txt("Tip operacii")]

\* a standard header cut to 12 columns
H_Std12 == SubSeq(H_Std18, 1, 12)

H_Narodny ==
  TxtRow(<<"Data i vremya operacii", "Valyuta operacii",
           "Vidy operacii (kategoriya dokumenta)", "Naimenovanie SDP",
           "Summa v valyute ee provedeniya po kreditu",
           "Summa v valyute ee provedeniya po debetu",
           "Summa v tenge po kreditu", "Summa v tenge po debetu",
           "Naimenovanie/FIO platel'shchika", "IIN/BIN platel'shchika",
           "Bank platel'shchika", "Nomer scheta platel'shchika",
           "Naimenovanie/FIO poluchatelya", "IIN/BIN poluchatelya",
           "Bank poluchatelya", "Nomer scheta poluchatelya",
           "Kod naznacheniya platezha", "Naznachenie platezha">>)

H_Kaspi ==
  TxtRow(<<"Data operacii", "Valyuta", "Summa", "Napravlenie",
           "Vidy operacii (kategoriya dokumenta)",
           "Platel'shchik", "Poluchatel'">>)

H_Delta ==
  TxtRow(<<"No p/p", "Naimenovanie kompanii/FIO", "BIN/IIN", "Data operacii",
           "Summy", "Naznachenie platezha">>)

H_Tsesna ==
  TxtRow(<<"Data operacii", "Summa", "Valyuta", "Kontragent", "BIN/IIN",
           "Naznachenie platezha">>)

H_Alatau ==
  TxtRow(<<"Data", "Debetovyj oborot", "Kreditovyj oborot", "Valyuta",
           "Platel'shchik", "Poluchatel'">>)

H_KaspiStat == TxtRow(<<"Terminal_ID", "Data", "Summa", "Tip operacii">>)

\* every sequence over S of length at most n
SeqsUpTo(S, n) == UNION {[1..k -> S] : k \in 0..n}

-----------------------------------------------------------------------------
(* Detection harness: detect_parser applied to one file *)

DetectSheets ==
  { SheetData("Sheet1", <<TxtRow(<<"n/a">>)>>),
    SheetData("Sheet1", <<H_Std18>>),
    SheetData("Sheet1", <<H_Std70>>),
    SheetData("Sheet1", <<TxtRow(<<"BIK HSBKKZKX">>), H_Narodny>>),
    SheetData("Sheet1", <<TxtRow(<<"AO Kaspi Bank">>),
                          TxtRow(<<"Vhodyashchij ostatok: 0,00">>), H_Kaspi>>),
    SheetData("Sheet1", <<TxtRow(<<"Statistika po terminalam">>), H_KaspiStat>>),
    SheetData("Sheet1", <<H_KaspiStat>>),
    SheetData("Vhodyashchie", <<H_Delta>>),
    SheetData("Sheet1", <<TxtRow(<<"Alatau City Bank">>), H_Alatau>>) }

\* <<file name, folder>> of the file under detection
DetectContexts ==
  { <<"vypiska.xlsx", "">>,
    <<"vypiska.xlsx", "Delta Bank vypiski">>,
    <<"vypiska.xlsx", "Alatau">>,
    <<"vypiska.xlsx", "Kaspi">>,
    <<"statement_standard_KZ123456789012345678.xlsx", "">> }

NoFile == [filename |-> "", extension |-> "", folder_name |-> "", sheets |-> <<>>, set |-> FALSE]

NoDetect ==
  [best_parser |-> "None", best_score |-> 0, why |-> "none", scanned |-> 0,
   returned |-> "None"]

InitDetect == dFile = NoFile /\ dOut = NoDetect /\ arg = Idle /\ ret = Idle /\ BatchIdle /\ UploadIdle

Detect ==
  /\ dFile = NoFile
  /\ \E c \in DetectContexts, sh \in SeqsUpTo(DetectSheets, MaxSheets) :
       /\ dFile' = [filename |-> c[1], extension |-> ".xlsx", folder_name |-> c[2],
                    sheets |-> sh, set |-> TRUE]
       /\ dOut' = detect_parser(RegistryAfterImport, sh, FileInfo(c[1], ".xlsx", c[2]))
  /\ UNCHANGED <<arg, ret, batch, upload>>

NextDetect == Detect

SpecDetect == InitDetect /\ [][NextDetect]_vars

-----------------------------------------------------------------------------
(* Claims about the detector, checked under SpecDetect *)

dInfo == FileInfo(dFile.filename, dFile.extension, dFile.folder_name)

Registered == {RegistryAfterImport[j] : j \in 1..Len(RegistryAfterImport)}

\* the score a recognizer gives to sheet i of the file under detection
ScoreOf(p, i) == can_parse(p, dFile.sheets[i], dInfo)

SetMax(S) == CHOOSE x \in S : \A y \in S : y <= x

\* the highest score among all (sheet, recognizer) pairs of the first k sheets
MaxOver(k) == SetMax({0} \cup {ScoreOf(p, i).score : p \in Registered, i \in 1..k})

BestScoreOfFile == MaxOver(Len(dFile.sheets))

\* the sheet at which scoring stops: the first one after which the best score
\* so far is at least 0.9, the last sheet when there is none
LastScoredSheet ==
  LET strong == {i \in 1..Len(dFile.sheets) : MaxOver(i) >= 90} IN
  IF strong = {} THEN Len(dFile.sheets)
  ELSE CHOOSE i \in strong : \A j \in strong : i <= j

\* C4: detect_parser returns a recognizer iff the best score among the
\* (sheet, recognizer) pairs of the file is at least 0.3; exactly 0.3 is
\* accepted, a lower best score and an empty sheet list give None.
C4_ThresholdBoundary ==
  dFile.set =>
    /\ (dOut.returned # "None") <=> (BestScoreOfFile >= 30)
    /\ dFile.sheets = <<>> => dOut.returned = "None"

\* a file whose best score is exactly 0.3 and that is accepted
C4_Witness ==
  dFile.set /\ BestScoreOfFile = 30 /\ dOut.returned = "KaspiStatisticsParser"

\* C5 as claimed: the returned recognizer holds the highest score among the
\* (sheet, recognizer) pairs of ALL sheets of the file, when that is >= 0.3.
C5_BestOverAllSheets ==
  (dFile.set /\ BestScoreOfFile >= 30) =>
    /\ dOut.returned # "None"
    /\ \E i \in 1..Len(dFile.sheets) : ScoreOf(dOut.returned, i).score = BestScoreOfFile

\* C5 amended: the returned recognizer holds the highest score among the
\* (sheet, recognizer) pairs of the sheets scored, which are the sheets up to
\* and including the first one that brings the best score to 0.9 or more (all
\* sheets when none does), when that highest score is >= 0.3.
C5_BestOverScoredSheets ==
  (dFile.set /\ MaxOver(LastScoredSheet) >= 30) =>
    /\ dOut.returned # "None"
    /\ \E i \in 1..LastScoredSheet :
         ScoreOf(dOut.returned, i).score = MaxOver(LastScoredSheet)

\* a file whose winner is found on the second sheet, not on the first
C5_Witness ==
  /\ dFile.set /\ Len(dFile.sheets) = 2 /\ dOut.returned # "None"
  /\ ScoreOf(dOut.returned, 1).score < 30
  /\ ScoreOf(dOut.returned, 2).score = MaxOver(2)
  /\ MaxOver(1) >= 30

\* C6: whenever some recognizer scores a sheet of the file through a
\* structural header match, detect_parser does not return a recognizer whose
\* score came from the folder or file name hint alone.
C6_HintNeverBeatsStructure ==
  dFile.set =>
    ~ /\ dOut.returned # "None"
      /\ dOut.why = "hint"
      /\ \E p \in Registered, i \in 1..Len(dFile.sheets) :
           /\ p # dOut.returned
           /\ ScoreOf(p, i).why = "structure"

-----------------------------------------------------------------------------
(* determine_direction applied to one combination of arguments *)

DirTexts ==
  {"", "Ishodyashchij", "Vhodyashchij", "Prihod", "Rashod", "Credit", "DR",
   "Debet/Kredit", "Prihod/Rashod", "Pokupka"}

OpTexts == {"", "Zachislenie na schet", "Spisanie so scheta", "Vozvrat perevoda", "Pokupka"}

\* amounts 1..MaxAmount units, with zero, a negative amount, None and a
\* string amount
MaxAmount == 1

AmountCells ==
  {NoneCell, Num(0), Num(-50000), Txt("1 234,56")} \cup {Num(100 * a) : a \in 1..MaxAmount}

InitDir == arg = Idle /\ ret = Idle /\ dFile = NoFile /\ dOut = NoDetect /\ BatchIdle /\ UploadIdle

Direction ==
  /\ ~arg.set
  /\ \E d \in AmountCells, c \in AmountCells, op \in OpTexts, raw \in DirTexts :
       /\ arg' = [set |-> TRUE, debit_amount |-> d, credit_amount |-> c,
                  operation_type |-> op, raw_direction |-> raw]
       /\ ret' = determine_direction(d, c, op, raw)
  /\ UNCHANGED <<dFile, dOut, batch, upload>>

NextDir == Direction

SpecDir == InitDir /\ [][NextDir]_vars

\* the markers of determine_direction as sets
IncomeWords == {income_markers[j] : j \in 1..Len(income_markers)}

ExpenseWords == {expense_markers[j] : j \in 1..Len(expense_markers)}

IncomeOpWords == {income_ops[j] : j \in 1..Len(income_ops)}

ExpenseOpWords == {expense_ops[j] : j \in 1..Len(expense_ops)}

\* the text contains at least one of the words
Mentions(text, words) == MarkersOf(text) \cap words # {}

\* the amount of a cell is a positive number / is absent or zero
Positive(c) == normalize_amount(c).some /\ normalize_amount(c).v > 0

AbsentOrZero(c) == ~normalize_amount(c).some \/ normalize_amount(c).v = 0

\* C8: an explicit direction text that contains a direction keyword decides
\* the result whatever the debit amount, credit amount and operation type
\* are; only without such a keyword the debit/credit comparison is used, then
\* the operation-type keywords, and otherwise the result is None.
C8_DirectionPriority ==
  arg.set =>
    LET explicit == Mentions(arg.raw_direction, IncomeWords \cup ExpenseWords)
        credit == Positive(arg.credit_amount) /\ AbsentOrZero(arg.debit_amount)
        debit == Positive(arg.debit_amount) /\ AbsentOrZero(arg.credit_amount)
        byOp == Mentions(arg.operation_type, IncomeOpWords \cup ExpenseOpWords)
    IN
    /\ explicit =>
         /\ ret \in {"Prihod", "Rashod"}
         /\ \A d \in AmountCells, c \in AmountCells, op \in OpTexts :
              determine_direction(d, c, op, arg.raw_direction) = ret
    /\ (Mentions(arg.raw_direction, ExpenseWords)
        /\ ~Mentions(arg.raw_direction, IncomeWords)) => ret = "Rashod"
    /\ (~explicit /\ credit) => ret = "Prihod"
    /\ (~explicit /\ debit) => ret = "Rashod"
    /\ (~explicit /\ ~credit /\ ~debit /\ byOp) => ret \in {"Prihod", "Rashod"}
    /\ (~explicit /\ ~credit /\ ~debit /\ ~byOp) => ret = "None"

\* 'Ishodyashchij' (outgoing) with a positive credit amount gives Expense
C8_Witness ==
  /\ arg.set
  /\ arg.raw_direction = "Ishodyashchij"
  /\ Positive(arg.credit_amount) /\ AbsentOrZero(arg.debit_amount)
  /\ ret = "Rashod"

-----------------------------------------------------------------------------
(* Extraction harness: parse_sheet of one parser applied to one sheet.     *)
(* A parser detected on one sheet of a workbook is applied to every sheet  *)
(* of it, so every parser can meet every layout.                           *)

\* data rows per sheet
MaxRows == 2

Blank(n) == [i \in 1..n |-> NoneCell]

\* the header row of a layout
HeaderOf(fmt) ==
  CASE fmt = "std" -> H_Std18
    [] fmt = "narodny" -> H_Narodny
    [] fmt = "kaspi" -> H_Kaspi
    [] fmt = "kstat" -> H_KaspiStat
    [] fmt = "alatau" -> H_Alatau
    [] fmt = "tsesna" -> H_Tsesna
    [] fmt = "delta" -> H_Delta

Layouts == {"std", "narodny", "kaspi", "kstat", "alatau", "tsesna", "delta"}

\* a data row of a layout: x = <<date, amount or credit, tenge amount or
\* debit, direction, operation type>> placed under the layout's columns
DataRow(fmt, x) ==
  CASE fmt = "std" ->
         [Blank(18) EXCEPT ![1] = x[1], ![3] = x[5], ![5] = x[2], ![6] = x[3]]
    [] fmt = "narodny" ->
         [Blank(18) EXCEPT ![1] = x[1], ![3] = x[5], ![5] = x[2], ![6] = x[3],
                           ![7] = x[2], ![8] = x[3]]
    [] fmt = "kaspi" ->
         [Blank(7) EXCEPT ![1] = x[1], ![3] = x[2], ![4] = x[4], ![5] = x[5]]
    [] fmt = "kstat" -> [Blank(4) EXCEPT ![2] = x[1], ![3] = x[2], ![4] = x[4]]
    [] fmt = "alatau" -> [Blank(6) EXCEPT ![1] = x[1], ![2] = x[3], ![3] = x[2]]
    [] fmt = "tsesna" -> [Blank(6) EXCEPT ![1] = x[1], ![2] = x[2]]
    [] fmt = "delta" -> [Blank(6) EXCEPT ![4] = x[1], ![5] = x[2]]

\* the row 1, 2, 3, ... some statements carry under the header
NumberingRow(fmt) == [i \in 1..Len(HeaderOf(fmt)) |-> Num(100 * i)]

RowInputs ==
  { <<Dt(1), Num(100), NoneCell, Txt("Prihod"), Txt("Zachislenie na schet")>>,
    <<Dt(1), Num(-50000), NoneCell, NoneCell, NoneCell>>,
    <<Dt(1), Num(-50000), NoneCell, NoneCell, Txt("Zachislenie na schet")>>,
    <<Dt(1), NoneCell, Num(100), Txt("Rashod"), Txt("Debet")>>,
    <<Dt(1), Txt("-500,00"), Num(0), NoneCell, Txt("Kredit")>>,
    <<Dt(1), BigInt, NoneCell, NoneCell, NoneCell>>,
    <<Txt("Itogo"), Num(100), NoneCell, NoneCell, NoneCell>>,
    <<Txt("2023-01-05"), Num(100), NoneCell, NoneCell, NoneCell>>,
    <<NoneCell, NoneCell, NoneCell, NoneCell, NoneCell>> }

RowsOf(fmt) == {DataRow(fmt, x) : x \in RowInputs} \cup {NumberingRow(fmt)}

\* <<sheet name, rows above the header, file name, folder>>
ExtractContexts ==
  { <<"Sheet1", <<>>, "vypiska.xlsx", "">>,
    <<"Ishodyashchie", <<TxtRow(<<"KZ123456789012345678">>)>>,
      "statement_standard_KZ123456789012345678.xlsx", "VTB">>,
    <<"Ishodyashchie", <<TxtRow(<<"Vhodyashchie platezhi">>)>>, "vypiska.xlsx",
      "Delta Bank vypiski">>,
    <<"Kredit", <<>>, "vypiska.xlsx", "Cesnabank">> }

InitExtract == arg = Idle /\ ret = Idle /\ dFile = NoFile /\ dOut = NoDetect /\ BatchIdle /\ UploadIdle

Extract ==
  /\ ~arg.set
  /\ \E parser_cls \in Registered, fmt \in Layouts, c \in ExtractContexts :
       \E data \in SeqsUpTo(RowsOf(fmt), MaxRows) :
         LET sheet == SheetData(c[1], c[2] \o <<HeaderOf(fmt)>> \o data)
             file_info == FileInfo(c[3], ".xlsx", c[4])
         IN /\ arg' = [set |-> TRUE, parser_cls |-> parser_cls, sheet |-> sheet,
                       file_info |-> file_info]
            /\ ret' = parse_sheet(parser_cls, sheet, file_info)
  /\ UNCHANGED <<dFile, dOut, batch, upload>>

NextExtract == Extract

SpecExtract == InitExtract /\ [][NextExtract]_vars

\* a source amount, debit or credit cell of the parsed sheet is negative
NegativeSource ==
  \E r \in 1..Len(arg.sheet.rows) : \E i \in 1..Len(arg.sheet.rows[r]) :
    LET c == arg.sheet.rows[r][i] IN
    ~normalize_amount_raises(c) /\ normalize_amount(c).some /\ normalize_amount(c).v < 0

\* C3: every transaction an extractor emits has amount >= 0 or no amount.
\* Fails: KaspiStatementParser (and every extractor but Standard18ColParser)
\* stores normalize_amount of the cell as it is.
C3_AmountNonNegative ==
  arg.set =>
    \A i \in 1..Len(ret.transactions) :
      ret.transactions[i].amount.some => ret.transactions[i].amount.v >= 0

\* the part of C3 that holds: Standard18ColParser emits no negative amount
C3_StandardNonNegative ==
  (arg.set /\ arg.parser_cls = "Standard18ColParser") =>
    \A i \in 1..Len(ret.transactions) :
      /\ ret.transactions[i].amount.some => ret.transactions[i].amount.v >= 0
      /\ ret.transactions[i].amount_tenge.some => ret.transactions[i].amount_tenge.v >= 0

C3_StandardWitness ==
  /\ arg.set /\ arg.parser_cls = "Standard18ColParser"
  /\ NegativeSource
  /\ \E i \in 1..Len(ret.transactions) :
       ret.transactions[i].amount = Some(50000) /\ ret.transactions[i].direction = "Rashod"

-----------------------------------------------------------------------------
(* Batch run: process_all over the bank folders of a data directory, or    *)
(* process_file on the single file given with --file                       *)

\* files of a batch
MaxFiles == 2

\* runs of process_all in one process
MaxRuns == 2

NoisySheet == SheetData("Sheet1", <<TxtRow(<<"n/a">>)>>)

KaspiSheet ==
  SheetData("Sheet1",
    <<TxtRow(<<"AO Kaspi Bank">>), TxtRow(<<"Vhodyashchij ostatok: 0,00">>), H_Kaspi,
      DataRow("kaspi", <<Dt(1), Num(100), NoneCell, Txt("Prihod"), Txt("Kredit")>>),
      DataRow("kaspi", <<Dt(1), Num(100), NoneCell, Txt("Rashod"), Txt("Debet")>>)>>)

VtbSheet ==
  SheetData("KZ72551N129228750KZT",
    <<H_VTB,
      DataRow("std", <<Dt(1), Num(100), Num(100), NoneCell, Txt("Zachislenie na schet")>>),
      DataRow("std", <<Dt(1), Num(-50000), Num(-50000), NoneCell, NoneCell>>)>>)

VtbOverflowSheet ==
  SheetData("Sheet1",
    <<H_VTB, DataRow("std", <<Dt(1), BigInt, NoneCell, NoneCell, NoneCell>>)>>)

StandardSheet ==
  SheetData("Sheet1",
    <<H_Std18,
      DataRow("std", <<Dt(1), Num(100), Num(100), NoneCell, Txt("Spisanie so scheta")>>)>>)

DeltaOverflowSheet ==
  SheetData("Vhodyashchie",
    <<H_Delta, DataRow("delta", <<Dt(1), BigInt, NoneCell, NoneCell, NoneCell>>)>>)

\* the files of the data directory, in the order sorted() visits them
SampleFiles ==
  << File("Alatau", "statement_standard_KZ123456789012345678.xlsx", TRUE, <<NoisySheet>>),
     File("Delta Bank vypiski", "old.xls", TRUE, <<DeltaOverflowSheet>>),
     File("Delta Bank vypiski", "vypiska.xlsx", TRUE, <<NoisySheet>>),
     File("Kaspi", "vypiska.xlsx", TRUE, <<KaspiSheet>>),
     File("Kaspi", "~$vypiska.xlsx", FALSE, <<>>),
     File("Arhiv", "vypiska.xlsx", TRUE, <<NoisySheet>>),
     File("VTB", "report.csv", FALSE, <<>>),
     File("VTB", "vypiska.xlsx", TRUE, <<VtbSheet, VtbOverflowSheet>>),
     File("Narodnyj sberegatel'nyj bank", "vypiska.xlsx", TRUE, <<StandardSheet>>),
     File("Raznoe", "empty.xlsx", TRUE, <<SheetData("Sheet1", <<>>)>>),
     File("Raznoe", "old.xls", FALSE, <<>>) >>

\* the files at the positions S, in directory order
RECURSIVE Pick(_, _)
Pick(S, i) ==
  IF i > Len(SampleFiles) THEN <<>>
  ELSE (IF i \in S THEN <<SampleFiles[i]>> ELSE <<>>) \o Pick(S, i + 1)

Batches ==
  {Pick(S, 1) : S \in {T \in SUBSET (1..Len(SampleFiles)) : Cardinality(T) <= MaxFiles}}

Init ==
  /\ dFile = NoFile /\ dOut = NoDetect /\ arg = Idle /\ ret = Idle
  /\ mode \in {"batch", "single"}
  /\ files \in IF mode = "batch" THEN Batches
               ELSE {<<SampleFiles[i]>> : i \in 1..Len(SampleFiles)}
  /\ pc = "run" /\ cursor = 1 /\ run = 1
  /\ all_results = <<>> /\ previous = <<>> /\ total_files = 0 /\ success_count = 0
  /\ saved = <<>> /\ calls = <<>> /\ escaped = FALSE
  /\ PARSER_REGISTRY = RegistryAfterImport /\ BANK_NAME = ClassAttrsAfterImport
  /\ UploadIdle

\* process_all, one pass of the loop: an entry that is not a spreadsheet
SkipEntry ==
  /\ mode = "batch" /\ pc = "run" /\ cursor <= Len(files)
  /\ ~IsSpreadsheetEntry(files[cursor])
  /\ cursor' = cursor + 1
  /\ UNCHANGED <<files, mode, pc, run, all_results, previous, total_files, success_count,
                 saved, calls, escaped, PARSER_REGISTRY, BANK_NAME, harness, upload>>

\* the loop body once process_file is over with the outcome out: the result
\* appended and counted, save_file_result tried (a failure to save is logged)
Collect(out) ==
  /\ total_files' = total_files + 1
  /\ BANK_NAME' = out.class_attrs
  /\ calls' = IF out.called = "None" THEN calls
              ELSE Append(calls, [file |-> total_files + 1, parser_cls |-> out.called])
  /\ IF out.escaped
       THEN /\ pc' = "crashed" /\ escaped' = TRUE
            /\ UNCHANGED <<cursor, all_results, success_count, saved>>
       ELSE /\ all_results' = Append(all_results, out.result)
            /\ success_count' = IF out.result.parse_status \in {"success", "partial"}
                                  THEN success_count + 1 ELSE success_count
            /\ \E save_ok \in BOOLEAN :
                 saved' = IF save_ok THEN Append(saved, out.result.source_file) ELSE saved
            /\ cursor' = cursor + 1
            /\ UNCHANGED <<pc, escaped>>

\* process_all, one pass of the loop: process_file on a spreadsheet entry
VisitFile ==
  /\ mode = "batch" /\ pc = "run" /\ cursor <= Len(files)
  /\ IsSpreadsheetEntry(files[cursor])
  /\ Collect(process_file(files[cursor], PARSER_REGISTRY, BANK_NAME))
  /\ UNCHANGED <<files, mode, run, previous, PARSER_REGISTRY, harness, upload>>

\* process_all after the loop: the combined output and the report are
\* saved (a failure is logged) and all_results is returned
Finish ==
  /\ mode = "batch" /\ pc = "run" /\ cursor > Len(files)
  /\ pc' = "done"
  /\ \E save_ok \in BOOLEAN : saved' = IF save_ok THEN Append(saved, "combined") ELSE saved
  /\ UNCHANGED <<files, mode, cursor, run, all_results, previous, total_files, success_count,
                 calls, escaped, PARSER_REGISTRY, BANK_NAME, harness, upload>>

\* process_all called again in the same process on the same directory
Rerun ==
  /\ mode = "batch" /\ pc = "done" /\ run < MaxRuns
  /\ run' = run + 1 /\ pc' = "run" /\ cursor' = 1
  /\ previous' = all_results
  /\ all_results' = <<>> /\ total_files' = 0 /\ success_count' = 0
  /\ saved' = <<>> /\ calls' = <<>>
  /\ UNCHANGED <<files, mode, escaped, PARSER_REGISTRY, BANK_NAME, harness, upload>>

\* the rest of the --file branch once process_file is over: the result
\* printed, then save_file_result outside any try
Report(out) ==
  /\ BANK_NAME' = out.class_attrs
  /\ calls' = IF out.called = "None" THEN calls
              ELSE Append(calls, [file |-> 1, parser_cls |-> out.called])
  /\ escaped' = out.escaped
  /\ all_results' = IF out.escaped THEN all_results ELSE <<out.result>>
  /\ \E save_ok \in BOOLEAN :
       /\ saved' = IF save_ok /\ ~out.escaped
                     THEN Append(saved, out.result.source_file) ELSE saved
       /\ pc' = IF save_ok /\ ~out.escaped THEN "done" ELSE "crashed"

\* --file: process_file on the one file given
SingleFile ==
  /\ mode = "single" /\ pc = "run"
  /\ Report(process_file(files[1], PARSER_REGISTRY, BANK_NAME))
  /\ UNCHANGED <<files, mode, cursor, run, previous, total_files, success_count,
                 PARSER_REGISTRY, harness, upload>>

Next == SkipEntry \/ VisitFile \/ Finish \/ Rerun \/ SingleFile

Spec == Init /\ [][Next]_vars

-----------------------------------------------------------------------------
(* Properties of the batch run *)

\* the entries process_file has been called on and returned from, in order
Visited ==
  IF mode = "single" THEN SubSeq(files, 1, Len(all_results))
  ELSE SelectSeq(SubSeq(files, 1, cursor - 1), IsSpreadsheetEntry)

Without(s, k) == SubSeq(s, 1, k - 1) \o SubSeq(s, k + 1, Len(s))

Supported(f) == ExtensionOf(f.filename) \in {".xlsx", ".xls"}

EmptyFile(f) == f.sheets = <<>> \/ \A i \in 1..Len(f.sheets) : num_rows(f.sheets[i]) = 0

ReadableNonEmpty(f) == Supported(f) /\ f.readable /\ ~EmptyFile(f)

\* read_excel_file raises on f, or the parse() of the detected parser does
ReadOrParseFails(f) ==
  /\ Supported(f)
  /\ \/ ~f.readable
     \/ /\ ~EmptyFile(f)
        /\ detect_parser(RegistryAfterImport, f.sheets, InfoOf(f)).returned # "None"
        /\ parse(detect_parser(RegistryAfterImport, f.sheets, InfoOf(f)).returned,
                 f.sheets, InfoOf(f), ClassAttrsAfterImport).raised

\* status, transaction count and transactions of each result
Brief(results) ==
  [k \in 1..Len(results) |->
     <<results[k].parse_status, results[k].total_transactions, results[k].transactions>>]

\* the results of a fresh process on the files fs
Fresh(fs) == ResultsOf(fs, RegistryAfterImport, ClassAttrsAfterImport)

\* C1: no exception leaves process_file; process_all holds one ParseResult
\* per spreadsheet file it has visited, in order; a file whose read or parse
\* raises is 'failed' with an error entry; and once the batch is over, the
\* status, transaction count and transactions of the other files are those
\* of the batch without the failing file.
C1_BatchResilience ==
  /\ ~escaped
  /\ mode = "batch" =>
       /\ pc # "crashed"
       /\ Len(all_results) = total_files
       /\ Len(all_results) = Len(Visited)
  /\ \A k \in 1..Len(all_results) :
       /\ all_results[k].source_file = Visited[k].filename
       /\ ReadOrParseFails(Visited[k]) =>
            all_results[k].parse_status = "failed" /\ all_results[k].errors # <<>>
  /\ (mode = "batch" /\ pc = "done") =>
       \A k \in 1..Len(all_results) :
         ReadOrParseFails(Visited[k]) =>
           Brief(Without(all_results, k)) = Brief(Fresh(Without(Visited, k)))

\* C1 witness: a finished batch with a file whose parse() raised, reported
\* 'failed', next to a file parsed with success
C1_Witness ==
  /\ mode = "batch" /\ pc = "done"
  /\ \E k, j \in 1..Len(all_results) :
       /\ Visited[k].readable /\ ReadOrParseFails(Visited[k])
       /\ all_results[k].parse_status = "failed"
       /\ all_results[j].parse_status = "success"
       /\ all_results[j].total_transactions >= 1

\* C2: 'success' iff transactions and no errors, 'partial' iff transactions
\* and errors, 'failed' iff no transactions and errors, 'skipped' only for an
\* empty file or an unsupported extension, for every result.
C2_StatusDerivation ==
  \A k \in 1..Len(all_results) :
    /\ all_results[k].parse_status = "success"
         <=> (all_results[k].total_transactions >= 1 /\ all_results[k].errors = <<>>)
    /\ all_results[k].parse_status = "partial"
         <=> (all_results[k].total_transactions >= 1 /\ all_results[k].errors # <<>>)
    /\ all_results[k].parse_status = "failed"
         <=> (all_results[k].total_transactions = 0 /\ all_results[k].errors # <<>>)
    /\ all_results[k].parse_status = "skipped"
         => (EmptyFile(Visited[k]) \/ ~Supported(Visited[k]))

\* no recognizer reaches the acceptance threshold on any sheet of f
NoRecognizerAccepts(f) ==
  \A i \in 1..Len(f.sheets) : \A p \in Registered :
    can_parse(p, f.sheets[i], InfoOf(f)).score < AcceptThreshold

\* C7: a readable, non-empty file on which no recognizer reaches the
\* threshold is 'failed' with no transaction and one error entry, no
\* parse() is called for it, and the batch goes on: it does not stop, and
\* when it ends every spreadsheet entry has its result.
C7_DetectionFailure ==
  /\ \A k \in 1..Len(all_results) :
       (ReadableNonEmpty(Visited[k]) /\ NoRecognizerAccepts(Visited[k])) =>
         /\ all_results[k].parse_status = "failed"
         /\ all_results[k].total_transactions = 0
         /\ all_results[k].transactions = <<>>
         /\ Len(all_results[k].errors) = 1
         /\ all_results[k].parser_used = "None"
         /\ \A c \in 1..Len(calls) : calls[c].file # k
  /\ mode = "batch" =>
       /\ pc # "crashed"
       /\ pc = "done" => Len(all_results) = Len(SelectSeq(files, IsSpreadsheetEntry))

\* C7 witness: a finished batch where detection failed on a file and the
\* file after it was parsed
C7_Witness ==
  /\ mode = "batch" /\ pc = "done" /\ Len(all_results) >= 2
  /\ ReadableNonEmpty(Visited[1]) /\ NoRecognizerAccepts(Visited[1])
  /\ all_results[1].parse_status = "failed"
  /\ all_results[2].parse_status = "success"
  /\ \E c \in 1..Len(calls) : calls[c].file = 2

\* C9: the registry and the attributes of the parser classes stay what the
\* import left; each result is the one a fresh process gives for the file
\* alone, wherever the file stands in the batch; and a second run in the
\* same process repeats the results of the first.
C9_NoStateAcrossFiles ==
  /\ PARSER_REGISTRY = RegistryAfterImport
  /\ BANK_NAME = ClassAttrsAfterImport
  /\ \A k \in 1..Len(all_results) : <<all_results[k]>> = Fresh(<<Visited[k]>>)
  /\ (run >= 2 /\ pc = "done") => all_results = previous

\* C9 witness: a second run over, with a Standard18ColParser file (whose
\* parse_sheet assigns self.BANK_NAME) processed before another one
C9_Witness ==
  /\ run = 2 /\ pc = "done" /\ Len(all_results) = 2
  /\ all_results[1].parser_used = "Standard18ColParser"
  /\ all_results[2].parser_used = "Standard18ColParser"
  /\ all_results[1].total_transactions >= 1 /\ all_results[2].total_transactions >= 1
  /\ all_results[1].transactions # all_results[2].transactions

-----------------------------------------------------------------------------
(* Upload handler: process_uploaded_file of app.py, step by step.  The     *)
(* temporary file is created with delete=False, so only os.unlink removes  *)
(* it.                                                                     *)

\* except Exception as e: 'failed', 'Error: ...'
upload_guarded(out, result) ==
  IF out.raised
    THEN [result EXCEPT !.parse_status = "failed", !.errors = Append(@, "Error")]
    ELSE out.result

\* the try block from the detection on, parser_cls being what detect_parser
\* returned
upload_detected(file, file_info, class_attrs, result, parser_cls) ==
  IF parser_cls = "None" THEN no_parser(result)
  ELSE upload_guarded(parse(parser_cls, file.sheets, file_info, class_attrs), result)

\* the try block of process_uploaded_file: what `result` is when the finally
\* clause is entered
upload_try(file, file_info, registry, class_attrs) ==
  IF ~file.readable
    THEN [ParseResult(file.filename) EXCEPT !.parse_status = "failed",
                                            !.errors = Append(@, "Error")]
  ELSE IF file.sheets = <<>> \/ \A i \in 1..Len(file.sheets) : num_rows(file.sheets[i]) = 0
    THEN [ParseResult(file.filename) EXCEPT !.parse_status = "skipped",
                                            !.warnings = Append(@, "Empty file")]
  ELSE upload_detected(file, file_info, class_attrs, ParseResult(file.filename),
                       detect_parser(registry, file.sheets, file_info).returned)

\* the folder hints the page passes
FolderHints == {"", "Kaspi", "Delta Bank vypiski"}

InitUpload ==
  /\ dFile = NoFile /\ dOut = NoDetect /\ arg = Idle /\ ret = Idle /\ BatchIdle
  /\ uploaded_file \in {SampleFiles[i] : i \in 1..Len(SampleFiles)}
  /\ folder_hint \in FolderHints
  /\ upload_pc = "start" /\ tmp_file = "none" /\ unlink_called = FALSE
  /\ upload_result = ParseResult(uploaded_file.filename)

\* the extension test, then NamedTemporaryFile(delete=False, suffix=ext)
CreateTemp ==
  /\ upload_pc = "start"
  /\ IF ExtensionOf(uploaded_file.filename) \notin {".xlsx", ".xls"}
       THEN /\ upload_result' = [upload_result EXCEPT
                                   !.parse_status = "skipped",
                                   !.errors = Append(@, "Unsupported format")]
            /\ upload_pc' = "returned"
            /\ UNCHANGED tmp_file
       ELSE /\ tmp_file' = "on disk"
            /\ upload_pc' = "write"
            /\ UNCHANGED upload_result
  /\ UNCHANGED <<uploaded_file, folder_hint, unlink_called, harness, batch>>

\* tmp.write(uploaded_file.getvalue()) inside the with block, before the
\* try: an OSError of the write (no space left on the device) closes the
\* file and leaves the function
WriteTemp ==
  /\ upload_pc = "write"
  /\ \E written \in BOOLEAN : upload_pc' = IF written THEN "try" ELSE "raised"
  /\ UNCHANGED <<uploaded_file, folder_hint, tmp_file, unlink_called, upload_result,
                 harness, batch>>

\* the try block: read, detect, parse; every exit goes through finally
TryBlock ==
  /\ upload_pc = "try"
  /\ upload_result' =
       upload_try(uploaded_file,
                  FileInfo(uploaded_file.filename, ExtensionOf(uploaded_file.filename),
                           folder_hint),
                  PARSER_REGISTRY, BANK_NAME)
  /\ upload_pc' = "finally"
  /\ UNCHANGED <<uploaded_file, folder_hint, tmp_file, unlink_called, harness, batch>>

\* finally: gc.collect(), os.unlink(tmp_path) with PermissionError and
\* OSError passed over, then return result
FinallyUnlink ==
  /\ upload_pc = "finally"
  /\ unlink_called' = TRUE
  /\ \E removed \in BOOLEAN : tmp_file' = IF removed THEN "unlinked" ELSE tmp_file
  /\ upload_pc' = "returned"
  /\ UNCHANGED <<uploaded_file, folder_hint, upload_result, harness, batch>>

NextUpload == CreateTemp \/ WriteTemp \/ TryBlock \/ FinallyUnlink

SpecUpload == InitUpload /\ [][NextUpload]_vars

\* C10: once the temporary file exists, every exit of process_uploaded_file
\* has called os.unlink on it, and the function returns a ParseResult
\* whether or not the unlink succeeded.
C10_TempFileReleased ==
  (upload_pc \in {"returned", "raised"} /\ tmp_file # "none") =>
    /\ unlink_called
    /\ upload_pc = "returned"
    /\ upload_result.parse_status \in {"success", "partial", "failed", "skipped"}

\* C10, from the try block on: every exit after the write has called
\* os.unlink and returns a ParseResult, the unlink failing or not
C10_ReleasedAfterWrite ==
  (upload_pc = "returned" /\ tmp_file # "none") =>
    /\ unlink_called
    /\ upload_result.parse_status \in {"success", "partial", "failed", "skipped"}

\* C10 witness: the unlink failed, the file is still there, and a parsed
\* result is returned
C10_UnlinkFailedWitness ==
  /\ upload_pc = "returned" /\ unlink_called /\ tmp_file = "on disk"
  /\ upload_result.parse_status = "success"

-----------------------------------------------------------------------------
(* Header search of the extractors                                         *)

\* the row index the header search of the extractor ends with (0: no header)
HeaderIdxOf(parser_cls, rows) ==
  CASE parser_cls = "Standard18ColParser" -> _find_header_idx(rows)
    [] parser_cls = "NarodnyBankParser" -> find_header_row(rows, HEADER_MARKERS, 30)
    [] parser_cls = "KaspiStatementParser" -> KaspiStatement_header_idx(rows)
    [] parser_cls = "KaspiStatisticsParser" -> KaspiStatistics_header_idx(rows)
    [] parser_cls = "AlatauCityParser" -> AlatauCity_header_idx(rows)
    [] parser_cls = "TsesnabankParser" -> Tsesnabank_header_idx(rows)
    [] parser_cls = "DeltaBankParser" -> DeltaBank_header_idx(rows)

\* C11: parse_sheet on a sheet in which the extractor's header cannot be
\* located returns no transaction and at least one error message, and raises
\* no exception.
\* Fails: AlatauCityParser returns the warning 'No data rows found' with an
\* empty error list, DeltaBankParser returns neither a warning nor an error.
C11_HeaderNotFoundIsError ==
  (arg.set /\ HeaderIdxOf(arg.parser_cls, arg.sheet.rows) = 0) =>
    /\ ~ret.raised
    /\ ret.transactions = <<>>
    /\ ret.errors # <<>>

\* the part of C11 that holds for every extractor: no header, no transaction
\* and no exception
C11_HeaderNotFoundIsEmpty ==
  (arg.set /\ HeaderIdxOf(arg.parser_cls, arg.sheet.rows) = 0) =>
    ~ret.raised /\ ret.transactions = <<>>

\* an extractor that reports the missing header as an error
C11_ErrorReported ==
  /\ arg.set /\ HeaderIdxOf(arg.parser_cls, arg.sheet.rows) = 0
  /\ ret.errors # <<>>

-----------------------------------------------------------------------------
(* Row-level normalization in the extractors, checked under SpecExtract *)

\* the transaction has an ISO date and an amount
Normalized(t) ==
  t.transaction_date.some /\ IsIso(t.transaction_date.v) /\ t.amount.some

\* C12: every transaction an extractor emits has a parsed (ISO-formatted)
\* transaction_date and a non-null amount: a row whose date or amount cell
\* cannot be parsed is dropped.
\* Fails: normalize_date returns an unparseable text as it is and the
\* extractors store it; a row without amount is emitted with amount None.
C12_EmittedAreNormalized ==
  arg.set => \A i \in 1..Len(ret.transactions) : Normalized(ret.transactions[i])

\* the part of C12 that holds: an emitted transaction has a date, which is
\* ISO whenever the date cell is a datetime or a text in one of DATE_FORMATS
C12_EmittedHaveDate ==
  arg.set => \A i \in 1..Len(ret.transactions) : ret.transactions[i].transaction_date.some

\* a sheet from which a row with an unparseable date and a row with a parsed
\* date are both emitted
C12_RawDateEmitted ==
  /\ arg.set /\ Len(ret.transactions) = 2
  /\ ~IsIso(ret.transactions[1].transaction_date.v)
  /\ ret.transactions[1].transaction_date.v = <<Ch("Itogo")>>
  /\ ret.transactions[2].transaction_date.v = TokensOf("2023-01-05")

-----------------------------------------------------------------------------
(* Parse harness: parse() of one parser applied to the sheets of one       *)
(* workbook.  The sheets of a workbook share a layout; the parser is any   *)
(* registered one, since detection may pick it on other grounds.           *)

\* a sheet of the layout with one data row.  kind: "a" and "b" carry two
\* different account numbers (sheet name and a cell above the header), "n"
\* carries none, "x" holds an amount float() overflows on
ParseSheet(fmt, kind) ==
  LET good == DataRow(fmt, <<Dt(1), Num(100), NoneCell, Txt("Prihod"), Txt("Kredit")>>)
      bad == DataRow(fmt, <<Dt(1), BigInt, BigInt, NoneCell, NoneCell>>)
  IN
  CASE kind = "a" -> SheetData("KZ123456789012345678",
                       <<TxtRow(<<"KZ123456789012345678">>), HeaderOf(fmt), good>>)
    [] kind = "b" -> SheetData("KZ72551N129228750KZT",
                       <<TxtRow(<<"KZ98765432109876543210AB">>), HeaderOf(fmt), good>>)
    [] kind = "n" -> SheetData("Sheet1", <<HeaderOf(fmt), good>>)
    [] kind = "x" -> SheetData("Sheet1", <<HeaderOf(fmt), bad>>)

SheetKinds == {"a", "b", "n", "x"}

\* <<file name, folder>>
ParseContexts == { <<"vypiska.xlsx", "VTB">>, <<"vypiska.xlsx", "">> }

InitParse ==
  arg = Idle /\ ret = Idle /\ dFile = NoFile /\ dOut = NoDetect /\ BatchIdle /\ UploadIdle

Parse ==
  /\ ~arg.set
  /\ \E parser_cls \in Registered, fmt \in Layouts, c \in ParseContexts :
       \E kinds \in SeqsUpTo(SheetKinds, MaxSheets) :
         LET sheets == [i \in 1..Len(kinds) |-> ParseSheet(fmt, kinds[i])]
             file_info == FileInfo(c[1], ".xlsx", c[2])
         IN /\ arg' = [set |-> TRUE, parser_cls |-> parser_cls, sheets |-> sheets,
                       file_info |-> file_info]
            /\ ret' = parse(parser_cls, sheets, file_info, ClassAttrsAfterImport)
  /\ UNCHANGED <<dFile, dOut, batch, upload>>

NextParse == Parse

SpecParse == InitParse /\ [][NextParse]_vars

\* what parse_sheet gives for sheet i of the workbook
SheetOut(i) == parse_sheet(arg.parser_cls, arg.sheets[i], arg.file_info)

\* the sheets that return an account number
WithAccount ==
  {i \in 1..Len(arg.sheets) : ~SheetOut(i).raised /\ SheetOut(i).account_number # "None"}

\* C13: the account_number of the ParseResult is the first non-null account
\* number a sheet returns; a later sheet does not replace it.
\* Fails: BaseParser.parse and the parse() overrides assign the account of
\* every sheet that has one, so the last one stays.
C13_FirstAccountWins ==
  (arg.set /\ ~ret.raised /\ WithAccount # {}) =>
    ret.result.account_number =
      SheetOut(CHOOSE i \in WithAccount : \A j \in WithAccount : i <= j).account_number

\* what the code does: the last sheet that returns an account number wins
C13_LastAccountWins ==
  (arg.set /\ ~ret.raised) =>
    ret.result.account_number =
      IF WithAccount = {} THEN "None"
      ELSE SheetOut(CHOOSE i \in WithAccount : \A j \in WithAccount : j <= i).account_number

\* two sheets with different account numbers, the second one kept
C13_SecondReplacesFirst ==
  /\ arg.set /\ ~ret.raised /\ Len(arg.sheets) = 2
  /\ WithAccount = {1, 2}
  /\ SheetOut(1).account_number # SheetOut(2).account_number
  /\ ret.result.account_number = SheetOut(2).account_number

\* C14: in every ParseResult an extractor produces, every transaction's
\* statement_bank equals bank_detected, the bank name of the detected format.
\* Fails: Standard18ColParser.parse reads bank_detected from the class
\* attribute BANK_NAME, which is '', before parse_sheet finds the bank name
\* it writes on the transactions.
C14_BankIdentityConsistent ==
  (arg.set /\ ~ret.raised) =>
    \A i \in 1..Len(ret.result.transactions) :
      ret.result.transactions[i].statement_bank = ret.result.bank_detected

\* the part of C14 that holds: the extractors with a fixed BANK_NAME write
\* it on bank_detected and on every transaction
C14_FixedNameConsistent ==
  (arg.set /\ ~ret.raised /\ arg.parser_cls # "Standard18ColParser") =>
    /\ ret.result.bank_detected = ClassAttrsAfterImport[arg.parser_cls]
    /\ \A i \in 1..Len(ret.result.transactions) :
         ret.result.transactions[i].statement_bank = ret.result.bank_detected

\* a standard-format workbook of the VTB folder: transactions of VTB in a
\* result whose bank_detected is empty
C14_StandardMismatch ==
  /\ arg.set /\ ~ret.raised /\ arg.parser_cls = "Standard18ColParser"
  /\ ret.result.bank_detected = ""
  /\ ret.result.transactions # <<>>
  /\ ret.result.transactions[1].statement_bank = VTB

\* the sheets of the workbook on which parse_sheet raises
Raising == {i \in 1..Len(arg.sheets) : SheetOut(i).raised}

\* the transactions of the sheets from the i-th on that parse_sheet returns
RECURSIVE KeptFrom(_)
KeptFrom(i) ==
  IF i > Len(arg.sheets) THEN <<>>
  ELSE (IF SheetOut(i).raised THEN <<>> ELSE SheetOut(i).transactions) \o KeptFrom(i + 1)

\* the ParseResult process_file has after its guarded call of parse()
FileResult ==
  parse_guarded(ret, ParseResult(arg.file_info.filename), arg.parser_cls).result

\* the failure is an error of the file, the other sheets' transactions are
\* kept, and the status is 'partial' when there are any
Isolated(r) ==
  /\ r.errors # <<>>
  /\ r.transactions = KeptFrom(1)
  /\ r.transactions # <<>> => r.parse_status = "partial"

\* C19: when parse_sheet raises on a sheet of a workbook, the failure is
\* recorded as an error of the file and the transactions of the other sheets
\* are kept (status 'partial'), for every extractor.
\* Fails: the parse() overrides (DeltaBankParser, TsesnabankParser, and
\* KazkomParser alike) call parse_sheet outside any try; the exception leaves
\* parse() and process_file reports 'failed' without transactions.
C19_SheetFaultIsolated ==
  (arg.set /\ Raising # {}) => Isolated(FileResult)

\* the part of C19 that holds: BaseParser.parse isolates the sheet
C19_BaseParserIsolates ==
  (arg.set /\ Raising # {} /\ arg.parser_cls \notin {"DeltaBankParser", "TsesnabankParser"}) =>
    ~ret.raised /\ Isolated(FileResult)

\* BaseParser.parse keeping the first sheet's transaction when the second
\* sheet raises
C19_PartialWitness ==
  /\ arg.set /\ Raising = {2} /\ ~ret.raised
  /\ Len(ret.result.transactions) = 1
  /\ ret.result.parse_status = "partial"

\* an override losing the first sheet's transaction when the second raises
C19_OverrideLoses ==
  /\ arg.set /\ Raising = {2} /\ ret.raised
  /\ KeptFrom(1) # <<>>
  /\ FileResult.transactions = <<>> /\ FileResult.parse_status = "failed"

-----------------------------------------------------------------------------
(* Amount harness: normalize_amount applied to one string *)

MaxTokens == 5

MaxDigits == 7

AmountAlphabet ==
  {Digits(<<1>>), Digits(<<2, 3, 4>>), Digits(<<5, 6>>), Ch(","), Ch("."), Ch(" ")}

\* the number of digits of the string
RECURSIVE DigitCount(_)
DigitCount(s) == IF s = <<>> THEN 0 ELSE Len(s[1].d) + DigitCount(Tail(s))

\* the strings of at most MaxTokens tokens and MaxDigits digits; two digit
\* runs do not stand side by side (they would be one run)
AmountStrings ==
  {s \in SeqsUpTo(AmountAlphabet, MaxTokens) : Join(s) = s /\ DigitCount(s) <= MaxDigits}

InitAmount ==
  arg = Idle /\ ret = Idle /\ dFile = NoFile /\ dOut = NoDetect /\ BatchIdle /\ UploadIdle

Amount ==
  /\ ~arg.set
  /\ \E value \in AmountStrings :
       /\ arg' = [set |-> TRUE, value |-> value]
       /\ ret' = normalize_amount_str(value)
  /\ UNCHANGED <<dFile, dOut, batch, upload>>

NextAmount == Amount

SpecAmount == InitAmount /\ [][NextAmount]_vars

\* the position of the right-most ',' or '.' of the string
LastSeparator(s) ==
  CHOOSE i \in 1..Len(s) :
    s[i].t \in {",", "."} /\ \A j \in (i + 1)..Len(s) : s[j].t \notin {",", "."}

\* the string read with `dec` as the decimal point and `sep` as the
\* thousands separator
ReadWith(s, dec, sep) == float_round(replace(remove(s, {sep}), dec, "."))

\* the string without the blanks
Packed == remove(strip(arg.value), Whitespace)

\* C15: of ',' and '.' in one string the right-most is the decimal point and
\* the other a thousands separator; a string with ',' only has the comma as
\* decimal point.
\* Fails: with both present the code removes every ',' wherever it stands,
\* so '1.234,56' is read as 1.23456 and gives 1.23.
C15_RightmostIsDecimal ==
  (arg.set /\ Contains(Packed, ",")) =>
    ret = IF ~Contains(Packed, ".") THEN ReadWith(Packed, ",", " ")
          ELSE IF Packed[LastSeparator(Packed)].t = "." THEN ReadWith(Packed, ".", ",")
          ELSE ReadWith(Packed, ",", ".")

\* the part of C15 that holds: ',' only, or '.' to the right of every ','
C15_CommaOnlyOrDotLast ==
  (arg.set /\ Contains(Packed, ",")
   /\ (Contains(Packed, ".") => Packed[LastSeparator(Packed)].t = ".")) =>
    ret = IF Contains(Packed, ".") THEN ReadWith(Packed, ".", ",")
          ELSE ReadWith(Packed, ",", " ")

\* '1,234.56' and '1 234,56' give 1234.56
C15_DotLastWitness ==
  /\ arg.set
  /\ arg.value = <<Digits(<<1>>), Ch(","), Digits(<<2, 3, 4>>), Ch("."), Digits(<<5, 6>>)>>
  /\ ret = Some(123456)

C15_CommaOnlyWitness ==
  /\ arg.set
  /\ arg.value = <<Digits(<<1>>), Ch(" "), Digits(<<2, 3, 4>>), Ch(","), Digits(<<5, 6>>)>>
  /\ ret = Some(123456)

\* '1.234,56' gives 1.23
C15_CommaLastWitness ==
  /\ arg.set
  /\ arg.value = <<Digits(<<1>>), Ch("."), Digits(<<2, 3, 4>>), Ch(","), Digits(<<5, 6>>)>>
  /\ ret = Some(123)

-----------------------------------------------------------------------------
(* Identification-number harness: normalize_iin_bin applied to one string *)

MaxIinTokens == 4

IinAlphabet ==
  {Digits(<<3, 0, 7, 4, 0, 0, 0, 1, 4, 0, 4>>), Digits(<<0, 3, 0, 7, 4, 0, 0, 0, 1, 4, 0, 4>>),
   Digits(<<0>>), Digits(<<5>>), Ch("'"), Ch("."), Ch(" "), Ch("N")}

IinStrings == {s \in SeqsUpTo(IinAlphabet, MaxIinTokens) : Join(s) = s}

InitIin ==
  arg = Idle /\ ret = Idle /\ dFile = NoFile /\ dOut = NoDetect /\ BatchIdle /\ UploadIdle

Iin ==
  /\ ~arg.set
  /\ \E value \in IinStrings :
       /\ arg' = [set |-> TRUE, value |-> value]
       /\ ret' = normalize_iin_bin(value)
  /\ UNCHANGED <<dFile, dOut, batch, upload>>

NextIin == Iin

SpecIin == InitIin /\ [][NextIin]_vars

\* the string ends with '.0'
EndsPointZero(s) ==
  Len(s) >= 2 /\ s[Len(s) - 1].t = "." /\ s[Len(s)] = Digits(<<0>>)

\* the digit sequence of the input, a trailing '.0' removed
InputDigits ==
  DigitsOf(IF EndsPointZero(strip(arg.value))
             THEN SubSeq(strip(arg.value), 1, Len(strip(arg.value)) - 2)
             ELSE strip(arg.value))

\* C16: for an input with at least one digit the result is the input's
\* digit sequence (quotes, spaces and a trailing '.0' removed), left-padded
\* with zeros to 12 digits when shorter.
\* Fails: everything behind the first '.' is dropped, not only a trailing
\* '.0': '30740001404.5' gives '030740001404', '880101.300123' would give
\* '000000880101', and 'N.5' gives 'N'.
C16_DigitsPadded ==
  (arg.set /\ DigitsOf(arg.value) # <<>>) =>
    ret = Some(<<Digits(zfill12(InputDigits))>>)

\* the part of C16 that holds: an input with a digit whose only '.', if
\* any, is that of a trailing '.0'
C16_PaddedWithoutPoint ==
  (arg.set /\ InputDigits # <<>>
   /\ ~Contains(IF EndsPointZero(strip(arg.value))
                  THEN SubSeq(strip(arg.value), 1, Len(strip(arg.value)) - 2)
                  ELSE strip(arg.value), ".")) =>
    ret = Some(<<Digits(zfill12(InputDigits))>>)

\* '30740001404.0' gives '030740001404'
C16_FloatTextWitness ==
  /\ arg.set
  /\ arg.value = <<Digits(<<3, 0, 7, 4, 0, 0, 0, 1, 4, 0, 4>>), Ch("."), Digits(<<0>>)>>
  /\ ret = Some(<<Digits(<<0, 0, 0, 0, 0, 0, 0, 0, 1, 4, 0, 4>>)>>)

\* an apostrophe-quoted 12-digit value comes back without the apostrophe
C16_QuotedWitness ==
  /\ arg.set
  /\ arg.value = <<Ch("'"), Digits(<<0, 3, 0, 7, 4, 0, 0, 0, 1, 4, 0, 4>>)>>
  /\ ret = Some(<<Digits(<<0, 0, 0, 0, 0, 0, 0, 0, 1, 4, 0, 4>>)>>)

\* '5.5' gives '000000000005'
C16_FractionLostWitness ==
  /\ arg.set
  /\ arg.value = <<Digits(<<5>>), Ch("."), Digits(<<5>>)>>
  /\ ret = Some(<<Digits(<<0, 0, 0, 0, 0, 0, 0, 0, 0, 0, 0, 5>>)>>)

-----------------------------------------------------------------------------
(* Date harness: normalize_date applied to one datetime or one string *)

\* the datetime written in the format, every field at its full width
Written(fmt, dt) ==
  [i \in 1..Len(fmt) |->
     CASE fmt[i] = "%Y" -> Digits(Pad(dt.year, 4))
       [] fmt[i] = "%y" -> Digits(Pad(dt.year % 100, 2))
       [] fmt[i] = "%m" -> Digits(Pad(dt.month, 2))
       [] fmt[i] = "%d" -> Digits(Pad(dt.day, 2))
       [] fmt[i] = "%H" -> Digits(Pad(dt.hour, 2))
       [] fmt[i] = "%M" -> Digits(Pad(dt.minute, 2))
       [] fmt[i] = "%S" -> Digits(Pad(dt.second, 2))
       [] fmt[i] = "%f" -> Digits(Pad(dt.microsecond \div 1000, 3))
       [] OTHER -> Ch(fmt[i])]

\* ways of writing a date that are in no format of DATE_FORMATS
OtherFormats ==
  { <<"%Y", "/", "%m", "/", "%d">>,
    <<"%d", "-", "%m", "-", "%Y">>,
    <<"%Y", "-", "%m", "-", "%d", " ", "%H", ":", "%M">> }

SampleDatetimes ==
  { datetime(y, mo, d, h, mi, s, us) :
      y \in {2024, 1968}, mo \in {2, 10}, d \in {16, 30}, h \in {0, 17}, mi \in {0, 5},
      s \in {0, 23}, us \in {0, 500000} }

\* the datetimes that exist (the 30th of February does not)
NativeDatetimes == {dt \in SampleDatetimes : dt.day <= DaysIn(dt.year, dt.month)}

DateStrings ==
  { Written(fmt, dt) :
      fmt \in {DATE_FORMATS[i] : i \in 1..Len(DATE_FORMATS)} \cup OtherFormats,
      dt \in SampleDatetimes }
  \cup { <<Ch(" ")>> \o Written(DATE_FORMATS[7], dt) \o <<Ch(" ")>> : dt \in SampleDatetimes }
  \cup { <<>>, <<Ch(" ")>>, <<Ch("Itogo")>>, <<Ch(" "), Ch("n/a"), Ch(" ")>>,
         <<Digits(<<4, 5, 0, 0, 0>>)>> }

InitDate ==
  arg = Idle /\ ret = Idle /\ dFile = NoFile /\ dOut = NoDetect /\ BatchIdle /\ UploadIdle

\* normalize_date(value) for a datetime
NormalizeDatetime ==
  /\ ~arg.set
  /\ \E dt \in NativeDatetimes :
       /\ arg' = [set |-> TRUE, native |-> TRUE, dt |-> dt, s |-> <<>>]
       /\ ret' = Some(normalize_date_datetime(dt))
  /\ UNCHANGED <<dFile, dOut, batch, upload>>

\* normalize_date(value) for a string
NormalizeString ==
  /\ ~arg.set
  /\ \E s \in DateStrings :
       /\ arg' = [set |-> TRUE, native |-> FALSE, dt |-> datetime(1900, 1, 1, 0, 0, 0, 0),
                  s |-> s]
       /\ ret' = normalize_date_str(s)
  /\ UNCHANGED <<dFile, dOut, batch, upload>>

NextDate == NormalizeDatetime \/ NormalizeString

SpecDate == InitDate /\ [][NextDate]_vars

\* the first format of DATE_FORMATS the trimmed string is in, 0 for none
FirstFormat == FirstTrue([i \in 1..Len(DATE_FORMATS) |-> strptime(strip(arg.s), DATE_FORMATS[i]).some])

\* the value normalize_date was given, when it is or parses to a datetime
Parses == arg.native \/ FirstFormat # 0

ParsedValue == IF arg.native THEN arg.dt ELSE strptime(strip(arg.s), DATE_FORMATS[FirstFormat]).v

\* the time of day is exactly midnight
Midnight(dt) == dt.hour = 0 /\ dt.minute = 0 /\ dt.second = 0 /\ dt.microsecond = 0

\* C17: a value that parses is rendered as 'YYYY-MM-DD' if and only if its
\* time of day is exactly midnight, otherwise as 'YYYY-MM-DD HH:MM:SS'; a
\* non-empty string in no format is returned trimmed.
\* Fails: the test looks at hour, minute and second only, so half a second
\* past midnight (2024-10-16T00:00:00.500) is rendered as a date.
C17_DateOnlyIffMidnight ==
  arg.set =>
    IF Parses
      THEN ret = Some(IF Midnight(ParsedValue) THEN strftime_date(ParsedValue)
                      ELSE strftime_datetime(ParsedValue))
    ELSE ret = (IF strip(arg.s) = <<>> THEN NoText ELSE Some(strip(arg.s)))

\* the part of C17 that holds: values without a fraction of a second, and
\* strings in no format
C17_WholeSeconds ==
  (arg.set /\ (Parses => ParsedValue.microsecond = 0)) =>
    IF Parses
      THEN ret = Some(IF Midnight(ParsedValue) THEN strftime_date(ParsedValue)
                      ELSE strftime_datetime(ParsedValue))
    ELSE ret = (IF strip(arg.s) = <<>> THEN NoText ELSE Some(strip(arg.s)))

\* '2024-10-16T00:00:00.500' comes back as '2024-10-16'
C17_HalfSecondWitness ==
  /\ arg.set /\ ~arg.native
  /\ arg.s = Written(DATE_FORMATS[2], datetime(2024, 10, 16, 0, 0, 0, 500000))
  /\ ret = Some(strftime_date(datetime(2024, 10, 16, 0, 0, 0, 0)))

\* '16.10.68' is read in the last format and comes back as '2068-10-16'
C17_ShortYearWitness ==
  /\ arg.set /\ ~arg.native /\ FirstFormat = 10
  /\ ret = Some(strftime_date(datetime(2068, 10, 16, 0, 0, 0, 0)))

\* a string in no format comes back trimmed
C17_RawWitness ==
  /\ arg.set /\ ~arg.native
  /\ arg.s = <<Ch(" "), Ch("n/a"), Ch(" ")>>
  /\ ret = Some(<<Ch("n/a")>>)

-----------------------------------------------------------------------------
(* File harness: process_file applied to one workbook of one sheet, a     *)
(* header row and one data row, found in one bank folder.                 *)

H_English == TxtRow(<<"Date", "Debit", "Credit", "Counterparty">>)

\* ['2023-01-05', None, 1000, 'Acme LLC']
EnglishRow == <<Txt("2023-01-05"), NoneCell, Num(100000), Txt("Acme LLC")>>

EnglishSheet == SheetData("Sheet1", <<H_English, EnglishRow>>)

\* the sheets a file of the harness may hold
FileSheets ==
  {EnglishSheet, SheetData("Sheet1", <<H_English>>)}
  \cup UNION {{SheetData("Sheet1", <<HeaderOf(fmt), row>>) : row \in RowsOf(fmt)} :
                fmt \in Layouts}

\* the bank folders the file may be found in
FileFolders ==
  {"", "Raznoe", "Kaspi", "Alatau", "Cesnabank", "Delta Bank vypiski", "VTB",
   "Narodnyj sberegatel'nyj bank"}

InitFile ==
  arg = Idle /\ ret = Idle /\ dFile = NoFile /\ dOut = NoDetect /\ BatchIdle /\ UploadIdle

\* process_file(filepath, folder_name)
ProcessFile ==
  /\ ~arg.set
  /\ \E folder_name \in FileFolders, sheet \in FileSheets :
       /\ arg' = [set |-> TRUE, file |-> File(folder_name, "vypiska.xlsx", TRUE, <<sheet>>)]
       /\ ret' = process_file(File(folder_name, "vypiska.xlsx", TRUE, <<sheet>>),
                              RegistryAfterImport, ClassAttrsAfterImport)
  /\ UNCHANGED <<dFile, dOut, batch, upload>>

NextFile == ProcessFile

SpecFile == InitFile /\ [][NextFile]_vars

\* the file of the scenario went through process_file
EnglishProcessed == arg.set /\ arg.file.sheets = <<EnglishSheet>>

\* C18: the file whose single sheet is [Date, Debit, Credit, Counterparty]
\* over ['2023-01-05', null, 1000, 'Acme LLC'] is detected and extracted into
\* exactly one transaction dated '2023-01-05', of amount 1000.00 and
\* direction Income.
\* Fails: no recognizer scores the English header, so the file is not
\* detected, or a folder picks a parser that does not find its header.
C18_EnglishSheetExtracted ==
  EnglishProcessed =>
    /\ ret.result.parse_status = "success"
    /\ Len(ret.result.transactions) = 1
    /\ ret.result.transactions[1].transaction_date = Some(TokensOf("2023-01-05"))
    /\ ret.result.transactions[1].amount = Some(100000)
    /\ ret.result.transactions[1].direction = "Prihod"

\* what the code does with the file of the scenario: in every folder no
\* transaction comes out of it
C18_EnglishSheetYieldsNothing ==
  EnglishProcessed =>
    /\ ret.result.transactions = <<>>
    /\ ret.result.parse_status \in {"failed", "skipped"}

\* the file in a folder that names no bank: 'No parser detected'
C18_NotDetected ==
  /\ EnglishProcessed /\ arg.file.folder_name = ""
  /\ ret.called = "None"
  /\ ret.result.parse_status = "failed"
  /\ ret.result.errors = <<"No parser detected">>

\* the same row under the 18-column header, by contrast, is one transaction
C18_StandardExtracted ==
  /\ arg.set /\ arg.file.sheets[1].rows[1] = H_Std18
  /\ ret.result.parse_status = "success"
  /\ Len(ret.result.transactions) = 1
  /\ ret.result.transactions[1].transaction_date = Some(TokensOf("2023-01-05"))

-----------------------------------------------------------------------------
(* Scan harness: detect_parser run step by step on one file, one call of  *)
(* a recognizer at a time.  arg is the file; ret holds the loop variables *)
(* (i the sheet, j the position in the registry), the running best and    *)
(* the log of the calls can_parse(registry[j], sheets[i]) made so far,    *)
(* with the scores they returned.                                         *)

InitScan ==
  arg = Idle /\ ret = Idle /\ dFile = NoFile /\ dOut = NoDetect /\ BatchIdle /\ UploadIdle

\* <<file name, folder>> of the file: those of the detection harness, and a
\* file_info whose folder_name is None
ScanContexts ==
  DetectContexts
  \cup { <<"vypiska.xlsx", NoFolder>>,
         <<"statement_standard_KZ123456789012345678.xlsx", NoFolder>> }

\* detect_parser(sheets, file_info) is called: `if not sheets: return None`,
\* else the loops are entered
CallDetect ==
  /\ ~arg.set
  /\ \E c \in ScanContexts, sh \in SeqsUpTo(DetectSheets, MaxSheets) :
       /\ arg' = [set |-> TRUE, sheets |-> sh, file_info |-> FileInfo(c[1], ".xlsx", c[2])]
       /\ ret' = [pc |-> IF sh = <<>> THEN "returned" ELSE "scan", i |-> 1, j |-> 1,
                  best |-> NoBest, log |-> <<>>, scores |-> <<>>, faults |-> <<>>,
                  broke |-> FALSE, returned |-> "None"]
  /\ UNCHANGED <<dFile, dOut, batch, upload>>

\* the call of the pass raises
CallRaises == can_parse_raises(PARSER_REGISTRY[ret.j], arg.sheets[ret.i], arg.file_info)

\* the score the call of the pass returns, 0 in the log for a call that raised
CallScore ==
  IF CallRaises THEN 0
  ELSE can_parse(PARSER_REGISTRY[ret.j], arg.sheets[ret.i], arg.file_info).score

\* one pass of the inner loop with the call outside any try: an exception of
\* the recognizer leaves detect_parser
CanParseUnguarded ==
  /\ arg.set /\ ret.pc = "scan" /\ ret.j <= Len(PARSER_REGISTRY)
  /\ ret' = [ret EXCEPT
               !.pc = IF CallRaises THEN "raised" ELSE @,
               !.best = TryCanParse(@, PARSER_REGISTRY[ret.j], arg.sheets[ret.i],
                                    arg.file_info),
               !.log = Append(@, <<ret.i, PARSER_REGISTRY[ret.j]>>),
               !.scores = Append(@, CallScore),
               !.faults = Append(@, CallRaises),
               !.j = @ + 1]
  /\ UNCHANGED <<arg, dFile, dOut, batch, upload>>

\* one pass of the inner loop: try: score = parser_cls.can_parse(sheet,
\* file_info) and the update of the best pair; except Exception: a warning
CanParse ==
  /\ arg.set /\ ret.pc = "scan" /\ ret.j <= Len(PARSER_REGISTRY)
  /\ ret' = [ret EXCEPT
               !.best = TryCanParse(@, PARSER_REGISTRY[ret.j], arg.sheets[ret.i],
                                    arg.file_info),
               !.log = Append(@, <<ret.i, PARSER_REGISTRY[ret.j]>>),
               !.scores = Append(@, CallScore),
               !.faults = Append(@, CallRaises),
               !.j = @ + 1]
  /\ UNCHANGED <<arg, dFile, dOut, batch, upload>>

\* the inner loop is over: `if best_score >= 0.9: break`, else the next
\* sheet, or the end of the outer loop
EndOfSheet ==
  /\ arg.set /\ ret.pc = "scan" /\ ret.j > Len(PARSER_REGISTRY)
  /\ ret' = IF ret.best.best_score >= StrongMatch
              THEN [ret EXCEPT !.pc = "accept", !.broke = TRUE]
            ELSE IF ret.i < Len(arg.sheets)
              THEN [ret EXCEPT !.i = @ + 1, !.j = 1]
            ELSE [ret EXCEPT !.pc = "accept"]
  /\ UNCHANGED <<arg, dFile, dOut, batch, upload>>

\* if best_score >= 0.3: return best_parser; return None
Return ==
  /\ arg.set /\ ret.pc = "accept"
  /\ ret' = [ret EXCEPT !.pc = "returned", !.returned = Accept(ret.best).returned]
  /\ UNCHANGED <<arg, dFile, dOut, batch, upload>>

NextScan == CallDetect \/ CanParse \/ EndOfSheet \/ Return

SpecScan == InitScan /\ [][NextScan]_vars

\* the calls made when the first n sheets have been scored entirely: sheet
\* by sheet in file order, on each sheet the whole registry in its order
RECURSIVE CallsOn(_, _)
CallsOn(registry, n) ==
  IF n = 0 THEN <<>>
  ELSE CallsOn(registry, n - 1) \o [k \in 1..Len(registry) |-> <<n, registry[k]>>]

\* s is a prefix of t
IsPrefix(s, t) == Len(s) <= Len(t) /\ \A k \in 1..Len(s) : s[k] = t[k]

\* the highest score a recognizer gave among the first n calls of the log
RECURSIVE BestOfLog(_, _)
BestOfLog(log, n) ==
  IF n = 0 THEN 0
  ELSE LET s == ret.scores[n]
           b == BestOfLog(log, n - 1)
       IN IF s > b THEN s ELSE b

\* the step-by-step run returns what the operator detect_parser returns
ScanAgreesWithDetect ==
  (arg.set /\ ret.pc = "returned") =>
    /\ ret.returned = detect_parser(PARSER_REGISTRY, arg.sheets, arg.file_info).returned
    /\ Len(ret.log) =
         Len(PARSER_REGISTRY)
           * detect_parser(PARSER_REGISTRY, arg.sheets, arg.file_info).scanned

\* the calls are made sheet by sheet in file order
ScoredInFileOrder == arg.set => IsPrefix(ret.log, CallsOn(RegistryAfterImport, Len(arg.sheets)))

\* the early exit was taken: the current sheet has been given to every
\* registered recognizer and the running best is at least 0.9
ExitAfterWholeSheet ==
  (arg.set /\ ret.broke) =>
    /\ ret.log = CallsOn(RegistryAfterImport, ret.i)
    /\ BestOfLog(ret.log, Len(ret.log)) >= 90

\* once the early exit is taken no recognizer is called any more
NoCallAfterExit == (arg.set /\ ret.broke) => ret'.log = ret.log

\* the loops are left without the early exit only when every sheet has been
\* scored, so while the best is below 0.9 every remaining sheet is scored
AllScoredWhileWeak ==
  (arg.set /\ ret.pc \in {"accept", "returned"} /\ arg.sheets # <<>>
     /\ BestOfLog(ret.log, Len(ret.log)) < 90) =>
    ret.log = CallsOn(RegistryAfterImport, Len(arg.sheets))

\* a sheet is left for the next one only with the best below 0.9
NextSheetOnlyWhileWeak ==
  (arg.set /\ ret.pc = "scan" /\ ret'.i = ret.i + 1) =>
    /\ BestOfLog(ret.log, Len(ret.log)) < 90
    /\ ret.log = CallsOn(RegistryAfterImport, ret.i)

\* C20: detect_parser scores the sheets in file order; the early exit is
\* taken only after every registered recognizer has been run on the current
\* sheet and only if the running best score is >= 0.9; once it is taken no
\* recognizer is invoked on any later sheet; while the running best is below
\* 0.9 every remaining sheet is scored.
C20_ShortCircuitOrdering ==
  /\ [](ScoredInFileOrder /\ ExitAfterWholeSheet /\ AllScoredWhileWeak)
  /\ [][NoCallAfterExit /\ NextSheetOnlyWhileWeak]_vars

\* the early exit taken on the first of two sheets: the second sheet is
\* given to no recognizer
C20_ExitOnFirstSheet ==
  /\ arg.set /\ ret.pc = "returned" /\ ret.broke
  /\ Len(arg.sheets) = 2 /\ ret.i = 1
  /\ Len(ret.log) = Len(RegistryAfterImport)
  /\ \A k \in 1..Len(ret.log) : ret.log[k][1] = 1

\* a first sheet that scores below 0.9 but above the acceptance threshold:
\* the second sheet is scored too, by every recognizer
C20_WeakFirstSheetWitness ==
  /\ arg.set /\ ret.pc = "returned" /\ ~ret.broke
  /\ Len(arg.sheets) = 2
  /\ BestOfLog(ret.log, Len(RegistryAfterImport)) \in 30..89
  /\ Len(ret.log) = 2 * Len(RegistryAfterImport)

-----------------------------------------------------------------------------
(* Tie-break of detect_parser, checked under SpecScan *)

\* the score the k-th call of the log returned
ScoreOfCall(k) == ret.scores[k]

\* the first call of the log that returned the highest score of the log
FirstTop ==
  CHOOSE k \in 1..Len(ret.log) :
    /\ \A m \in 1..Len(ret.log) : ScoreOfCall(m) <= ScoreOfCall(k)
    /\ \A m \in 1..(k - 1) : ScoreOfCall(m) < ScoreOfCall(k)

\* some call of the log returned a score above 0
SomeScore == \E k \in 1..Len(ret.log) : ScoreOfCall(k) > 0

\* C21: a candidate replaces the current best only when its score is strictly
\* greater, so the best recognizer is always the first call, in sheet order
\* and then registration order, that returned the highest score so far: among
\* equal top scores on a sheet the one registered earliest wins, and between
\* equal scores on different sheets the earlier sheet's recognizer wins.
C21_EarliestTopWins ==
  arg.set =>
    IF SomeScore
      THEN /\ ret.best.best_parser = ret.log[FirstTop][2]
           /\ ret.best.best_score = ScoreOfCall(FirstTop)
    ELSE ret.best.best_parser = "None" /\ ret.best.best_score = 0

\* two recognizers give the same top score on one sheet: the one registered
\* first is returned
C21_TieOnSheetWitness ==
  /\ arg.set /\ ret.pc = "returned"
  /\ \E k, m \in 1..Len(ret.log) :
       /\ k < m /\ ret.log[k][1] = ret.log[m][1] /\ ret.log[k][2] # ret.log[m][2]
       /\ ScoreOfCall(k) = ret.best.best_score /\ ScoreOfCall(m) = ret.best.best_score
       /\ ret.returned = ret.log[k][2]

\* two recognizers give the same top score on different sheets: the one of
\* the earlier sheet is returned although it is registered later
C21_TieAcrossSheetsWitness ==
  /\ arg.set /\ ret.pc = "returned"
  /\ ret.returned = "DeltaBankParser"
  /\ \E k, m \in 1..Len(ret.log) :
       /\ ret.log[k][1] = 1 /\ ret.log[m][1] = 2
       /\ ret.log[k][2] = "DeltaBankParser" /\ ret.log[m][2] = "Standard18ColParser"
       /\ ScoreOfCall(k) = ret.best.best_score /\ ScoreOfCall(m) = ret.best.best_score

-----------------------------------------------------------------------------
(* Signed single amounts, checked under SpecExtract *)

\* Standard18ColParser was given a sheet of its own layout
StandardOnStandard ==
  /\ arg.set /\ arg.parser_cls = "Standard18ColParser"
  /\ \E h \in 1..Len(arg.sheet.rows) : arg.sheet.rows[h] = H_Std18

\* the row of the 18-column header
StdHeaderAt == CHOOSE h \in 1..Len(arg.sheet.rows) : arg.sheet.rows[h] = H_Std18

\* every row under the header was emitted, so that the k-th transaction is
\* the k-th row under the header
AllRowsEmitted ==
  ~ret.raised /\ Len(ret.transactions) = Len(arg.sheet.rows) - StdHeaderAt

\* the amount cell (5th column) of the k-th row under the header is negative
NegativeAmountRow(k) ==
  LET c == arg.sheet.rows[StdHeaderAt + k][5] IN
  ~normalize_amount_raises(c) /\ normalize_amount(c).some /\ normalize_amount(c).v < 0

\* the operation type (3rd column) of the k-th row under the header names a
\* direction
OpTypeDirection(k) ==
  _determine_direction_from_op(clean_string(arg.sheet.rows[StdHeaderAt + k][3]))

\* C22: every row whose source amount is negative is emitted with direction
\* Expense and amount equal to the absolute value, whatever the row's
\* operation-type text says.
\* Fails: `direction = direction or 'Rashod'` keeps the direction the
\* operation type gave, so -500.00 with 'Zachislenie na schet' is Income.
C22_NegativeIsExpense ==
  (StandardOnStandard /\ AllRowsEmitted) =>
    \A k \in 1..Len(ret.transactions) :
      NegativeAmountRow(k) =>
        /\ ret.transactions[k].direction = "Rashod"
        /\ ret.transactions[k].amount
             = Some(-normalize_amount(arg.sheet.rows[StdHeaderAt + k][5]).v)

\* the part of C22 that holds: the amount is the absolute value, and the
\* direction is Expense when the operation type names none
C22_NegativeIsExpenseByDefault ==
  (StandardOnStandard /\ AllRowsEmitted) =>
    \A k \in 1..Len(ret.transactions) :
      NegativeAmountRow(k) =>
        /\ ret.transactions[k].amount
             = Some(-normalize_amount(arg.sheet.rows[StdHeaderAt + k][5]).v)
        /\ ret.transactions[k].direction
             = (IF OpTypeDirection(k) = "None" THEN "Rashod" ELSE OpTypeDirection(k))

\* -500.00 with the operation type 'Zachislenie na schet' is emitted as
\* Income of 500.00
C22_NegativeIncomeWitness ==
  /\ StandardOnStandard /\ AllRowsEmitted
  /\ \E k \in 1..Len(ret.transactions) :
       /\ NegativeAmountRow(k) /\ OpTypeDirection(k) = "Prihod"
       /\ ret.transactions[k].direction = "Prihod"
       /\ ret.transactions[k].amount = Some(50000)

-----------------------------------------------------------------------------
(* Direction by worksheet name, checked under SpecExtract *)

\* the direction the extractor derives from the name of the sheet
NameDirection(parser_cls, name) ==
  CASE parser_cls = "TsesnabankParser" ->
         IF In("kredit", name) THEN "Prihod"
         ELSE IF In("debet", name) THEN "Rashod" ELSE "None"
    [] parser_cls = "DeltaBankParser" ->
         IF In("vhodyashch", name) THEN "Prihod"
         ELSE IF In("ishodyashch", name) THEN "Rashod" ELSE "None"

\* one of the extractors of the model that encode direction by sheet name
BySheetName == arg.set /\ arg.parser_cls \in {"TsesnabankParser", "DeltaBankParser"}

\* C23: every transaction emitted from a sheet carries the direction derived
\* from that sheet's name, so all transactions of one sheet have the same
\* direction.
\* Fails: DeltaBankParser lets a cell of the first five rows ('Vhodyashchie
\* platezhi') replace the direction of the name ('Ishodyashchie').
C23_DirectionFromSheetName ==
  BySheetName =>
    \A k \in 1..Len(ret.transactions) :
      ret.transactions[k].direction = NameDirection(arg.parser_cls, arg.sheet.name)

\* the part of C23 that holds: the transactions of one sheet share one
\* direction, and for TsesnabankParser it is the one of the name
C23_OneDirectionPerSheet ==
  BySheetName =>
    /\ \A k, m \in 1..Len(ret.transactions) :
         ret.transactions[k].direction = ret.transactions[m].direction
    /\ arg.parser_cls = "TsesnabankParser" =>
         \A k \in 1..Len(ret.transactions) :
           ret.transactions[k].direction = NameDirection(arg.parser_cls, arg.sheet.name)

\* a Delta sheet named 'Ishodyashchie' whose first row says 'Vhodyashchie
\* platezhi': its transactions are Income
C23_ContentOverridesName ==
  /\ arg.set /\ arg.parser_cls = "DeltaBankParser"
  /\ NameDirection("DeltaBankParser", arg.sheet.name) = "Rashod"
  /\ Len(ret.transactions) = 2
  /\ \A k \in 1..2 : ret.transactions[k].direction = "Prihod"

\* a Tsesnabank sheet named 'Kredit': its transactions are Income
C23_SheetNameWitness ==
  /\ arg.set /\ arg.parser_cls = "TsesnabankParser"
  /\ NameDirection("TsesnabankParser", arg.sheet.name) = "Prihod"
  /\ Len(ret.transactions) = 2
  /\ \A k \in 1..2 : ret.transactions[k].direction = "Prihod"

-----------------------------------------------------------------------------
(* Summary rows, checked under SpecExtract *)

\* the date of a transaction is the text of a summary row ('Itogo' total,
\* 'ostatok' balance), which normalize_date hands back as it is
SummaryDate(d) ==
  /\ d.some /\ Len(d.v) = 1 /\ d.v[1].t # "digits"
  /\ (In("itogo", d.v[1].t) \/ In("ostatok", d.v[1].t))

\* the date-column cell of a row under the header holds a summary marker
SummaryRowGiven ==
  \E r \in 1..Len(arg.sheet.rows) : \E i \in 1..Len(arg.sheet.rows[r]) :
    LET c == arg.sheet.rows[r][i] IN
    c.k = "txt" /\ c.p = "Itogo"

\* the extractors of the model that test the date cell for summary markers
SummaryTesting ==
  {"NarodnyBankParser", "KaspiStatementParser", "AlatauCityParser", "TsesnabankParser"}

\* C24: for every extractor, a row that is entirely empty, or whose
\* date-column cell contains a summary marker, produces no transaction.
\* Fails: Standard18ColParser skips a row only when its date cell is None and
\* emits the row 'Itogo', 100.00.
C24_SummaryRowsSkipped ==
  arg.set =>
    /\ \A k \in 1..Len(ret.transactions) :
         ~SummaryDate(ret.transactions[k].transaction_date)
    /\ (\A r \in 1..Len(arg.sheet.rows) :
          r > HeaderIdxOf(arg.parser_cls, arg.sheet.rows) => AllNone(arg.sheet.rows[r]))
         => ret.transactions = <<>>

\* the part of C24 that holds: empty rows are skipped by every extractor,
\* summary rows by the extractors that test for them
C24_SummarySkippedWhereTested ==
  arg.set =>
    /\ arg.parser_cls \in SummaryTesting =>
         \A k \in 1..Len(ret.transactions) :
           ~SummaryDate(ret.transactions[k].transaction_date)
    /\ (\A r \in 1..Len(arg.sheet.rows) :
          r > HeaderIdxOf(arg.parser_cls, arg.sheet.rows) => AllNone(arg.sheet.rows[r]))
         => ret.transactions = <<>>

\* Standard18ColParser emits the row 'Itogo' as a transaction
C24_TotalEmitted ==
  /\ arg.set /\ arg.parser_cls = "Standard18ColParser" /\ SummaryRowGiven
  /\ \E k \in 1..Len(ret.transactions) :
       /\ SummaryDate(ret.transactions[k].transaction_date)
       /\ ret.transactions[k].amount = Some(100)

\* TsesnabankParser skips the row 'Itogo' and emits the row after it
C24_TotalSkipped ==
  /\ arg.set /\ arg.parser_cls = "TsesnabankParser" /\ SummaryRowGiven
  /\ arg.sheet.rows[Len(arg.sheet.rows) - 1][1] = Txt("Itogo")
  /\ Len(ret.transactions) = 1
  /\ ret.transactions[1].transaction_date = Some(TokensOf("2023-01-05"))

-----------------------------------------------------------------------------
(* Faults of recognizers, checked under SpecScan *)

\* the step is a call of a recognizer that raised
FaultStep ==
  /\ arg.set /\ ret.pc = "scan"
  /\ Len(ret'.faults) = Len(ret.faults) + 1
  /\ ret'.faults[Len(ret'.faults)]

\* the highest score among the calls of the log that returned, 0 when none did
RECURSIVE BestReturned(_)
BestReturned(n) ==
  IF n = 0 THEN 0
  ELSE IF ~ret.faults[n] /\ ret.scores[n] > BestReturned(n - 1) THEN ret.scores[n]
  ELSE BestReturned(n - 1)

\* some call of the log raised
SomeFault == \E k \in 1..Len(ret.faults) : ret.faults[k]

C26_AllFolderReadersFault ==
  /\ arg.set /\ ret.pc = "returned" /\ ret.returned = "None"
  /\ Len(ret.log) = Len(RegistryAfterImport)
  /\ Cardinality({k \in 1..Len(ret.faults) : ret.faults[k]}) = 5

-----------------------------------------------------------------------------
(* Transaction counts of the results and of the combined output *)

\* process_all: total_transactions = sum(r.total_transactions for r in all_results)
RECURSIVE BatchTotal(_)
BatchTotal(results) ==
  IF results = <<>> THEN 0
  ELSE Head(results).total_transactions + BatchTotal(Tail(results))

\* save_combined_output: the transactions of every result, in order, as
\* written to all_transactions.json
RECURSIVE save_combined_output(_)
save_combined_output(results) ==
  IF results = <<>> THEN <<>>
  ELSE Head(results).transactions \o save_combined_output(Tail(results))

\* C27: every ParseResult process_file has returned, whatever the path that
\* produced it, has total_transactions equal to the length of its
\* transactions, and the total process_all logs is the number of
\* transactions save_combined_output writes.
C27_CountConsistency ==
  /\ \A k \in 1..Len(all_results) :
       all_results[k].total_transactions = Len(all_results[k].transactions)
  /\ BatchTotal(all_results) = Len(save_combined_output(all_results))

\* C27: the same for the ParseResult process_uploaded_file returns
C27_UploadCountConsistency ==
  upload_result # Idle => upload_result.total_transactions = Len(upload_result.transactions)

\* C27 witness: a finished batch whose combined output was saved, holding a
\* result of a parse that raised, a result without a parser or skipped, and
\* a parsed result with transactions
C27_Witness ==
  /\ mode = "batch" /\ pc = "done"
  /\ \E n \in 1..Len(saved) : saved[n] = "combined"
  /\ \E k, j \in 1..Len(all_results) :
       /\ Visited[k].readable /\ ReadOrParseFails(Visited[k])
       /\ all_results[k].transactions = <<>>
       /\ all_results[j].parse_status \in {"success", "partial"}
       /\ Len(all_results[j].transactions) >= 1
  /\ BatchTotal(all_results) >= 1

\* C27 witness: an upload parsed with transactions
C27_UploadWitness ==
  /\ upload_result # Idle
  /\ Len(upload_result.transactions) >= 1

-----------------------------------------------------------------------------
(* Precedence of the income markers inside the explicit direction text *)

\* the explicit direction text names an income marker and an expense marker
BothKinds(raw) == Mentions(raw, IncomeWords) /\ Mentions(raw, ExpenseWords)

\* C29: an explicit direction text that contains an income marker and an
\* expense marker resolves to income, whichever marker comes first in the
\* text and whatever the amounts and the operation type are.
C29_IncomeMarkersFirst ==
  (arg # Idle /\ arg.set /\ BothKinds(arg.raw_direction)) => ret = "Prihod"

\* C29 witness: the text with the expense marker written first, next to a
\* debit amount and an expense operation type, resolved to income
C29_ExpenseWrittenFirstWitness ==
  /\ arg # Idle /\ arg.set
  /\ arg.raw_direction = "Debet/Kredit"
  /\ arg.debit_amount = Num(100) /\ arg.credit_amount = NoneCell
  /\ arg.operation_type = "Spisanie so scheta"
  /\ ret = "Prihod"

\* C29 witness: the text with the income marker written first, resolved to
\* income as well
C29_IncomeWrittenFirstWitness ==
  /\ arg # Idle /\ arg.set
  /\ arg.raw_direction = "Prihod/Rashod"
  /\ ret = "Prihod"

-----------------------------------------------------------------------------
(* Single-counterparty extractors: one counterparty column, written to the  *)
(* payer or to the recipient fields of the transaction.  The data row is    *)
(* given by the cells the column map points at.                            *)

\* the decimal digits of a natural number
RECURSIVE NatDigits(_)
NatDigits(n) == IF n < 10 THEN <<n>> ELSE NatDigits(n \div 10) \o <<n % 10>>

\* str(x) of a float cell of n hundredths: '5.0', '1.5', '-500.25'
StrOfNumber(n) ==
  LET a == IF n < 0 THEN -n ELSE n
      frac == IF a % 10 = 0 THEN <<(a % 100) \div 10>> ELSE <<(a % 100) \div 10, a % 10>>
  IN (IF n < 0 THEN <<Ch("-")>> ELSE <<>>)
       \o <<Digits(NatDigits(a \div 100)), Ch("."), Digits(frac)>>

\* normalize_iin_bin(self._get(row, col_map.get('iin'))) of a cell that is
\* None, a number or a text
iin_of(c) ==
  CASE c.k = "none" -> NoText
    [] c.k = "num" -> normalize_iin_bin(StrOfNumber(c.n))
    [] c.k = "txt" -> normalize_iin_bin(TokensOf(c.p))

\* the counterparty written on both sides whatever the direction
CounterpartyOnBothSides(direction, counterparty, iin) ==
  [payer |-> counterparty, payer_iin_bin |-> iin,
   recipient |-> counterparty, recipient_iin_bin |-> iin]

\* payer=counterparty if direction == 'Приход' else None, recipient=
\* counterparty if direction == 'Расход' else None, and the same for the
\* identification number; "" and NoText stand for None
Counterparty(direction, counterparty, iin) ==
  [payer |-> IF direction = "Prihod" THEN counterparty ELSE "",
   payer_iin_bin |-> IF direction = "Prihod" THEN iin ELSE NoText,
   recipient |-> IF direction = "Rashod" THEN counterparty ELSE "",
   recipient_iin_bin |-> IF direction = "Rashod" THEN iin ELSE NoText]

\* the fields of the emitted Transaction the placement is about
Placed(direction, counterparty, iin) ==
  RowEmit([direction |-> direction] @@ Counterparty(direction, counterparty, iin))

\* TsesnabankParser.parse_sheet, one data row: direction is the one of the
\* sheet name
Tsesnabank_counterparty(direction, date_val, amount, counterparty, iin) ==
  IF date_val.k = "none" \/ Has(date_val, "itogo") \/ Has(date_val, "ostatok") THEN RowSkip
  ELSE IF normalize_amount_raises(amount) THEN RowRaise
  ELSE Placed(direction, clean_string(counterparty), iin_of(iin))

\* EurasianStatementParser.parse_sheet, one data row: the direction from
\* the debit and credit columns, else from the operation type
EurasianStatement_direction(debit, credit, op_type) ==
  LET direction == determine_direction(AsCell(normalize_amount(debit)),
                                       AsCell(normalize_amount(credit)), "", "")
  IN IF direction = "None" /\ clean_string(op_type) # ""
       THEN determine_direction(NoneCell, NoneCell, clean_string(op_type), "")
       ELSE direction

EurasianStatement_counterparty(date_val, debit, credit, op_type, counterparty, iin) ==
  IF date_val.k = "none" \/ Has(date_val, "itogo") \/ Has(date_val, "ostatok") THEN RowSkip
  ELSE IF normalize_amount_raises(debit) \/ normalize_amount_raises(credit) THEN RowRaise
  ELSE Placed(EurasianStatement_direction(debit, credit, op_type),
              clean_string(counterparty), iin_of(iin))

\* NurbankXlsParser.parse_sheet, one data row: the direction from the debit
\* and credit columns
NurbankXls_counterparty(date_val, debit, credit, counterparty, iin) ==
  IF \/ date_val.k = "none"
     \/ Has(date_val, "itogo") \/ Has(date_val, "vsego") \/ Has(date_val, "ostatok")
     \/ Has(date_val, "vhodyashchij")
    THEN RowSkip
  ELSE IF normalize_amount_raises(debit) \/ normalize_amount_raises(credit) THEN RowRaise
  ELSE Placed(determine_direction(AsCell(normalize_amount(debit)),
                                  AsCell(normalize_amount(credit)), "", ""),
              clean_string(counterparty), iin_of(iin))

\* KassaNovaParser.parse_sheet, the section markers of one row: every cell
\* that says 'входящие' or 'исходящие' sets the current direction
RECURSIVE KassaNova_section(_, _)
KassaNova_section(current_direction, row) ==
  IF row = <<>> THEN current_direction
  ELSE KassaNova_section(
         IF THas(Head(row), "vhodyashchie") THEN "Prihod"
         ELSE IF THas(Head(row), "ishodyashchie") THEN "Rashod"
         ELSE current_direction,
         Tail(row))

\* KassaNovaParser.parse_sheet, one row [date, name, iin, amount] read under
\* the current direction
KassaNova_counterparty(current_direction, date_val, name, iin, amount) ==
  LET direction == KassaNova_section(current_direction, <<date_val, name, iin, amount>>)
  IN
  IF \/ date_val.k = "none"
     \/ date_val.k = "txt" /\ (Has(date_val, "data") \/ Has(date_val, "vhodyashch")
                                \/ Has(date_val, "ishodyashch")
                                \/ DigitsOf(TokensOf(date_val.p)) = <<>>)
    THEN RowSkip
  ELSE IF normalize_amount_raises(amount) THEN RowRaise
  ELSE IF ~normalize_amount(amount).some THEN RowSkip
  ELSE Placed(direction, clean_string(name), iin_of(iin))

SingleCounterparty ==
  {"TsesnabankParser", "EurasianStatementParser", "NurbankXlsParser", "KassaNovaParser"}

\* the counterparty, identification number, date, amount and operation type
\* cells of the sample rows
PartyNames == {NoneCell, Txt("Acme LLC"), Txt("Vhodyashchie platezhi")}

PartyIins == {NoneCell, Num(140400), Txt("Klient, IIN 880101300123")}

PartyDates == {Dt(1), Txt("Itogo")}

PartyAmounts == {NoneCell, Num(0), Num(100), Txt("1 234,56")}

PartyTypes == {NoneCell, Txt("Zachislenie na schet"), Txt("Spisanie so scheta")}

InitParty == arg = Idle /\ ret = Idle /\ dFile = NoFile /\ dOut = NoDetect /\ BatchIdle /\ UploadIdle

\* one data row read by one of the four extractors; direction is the one
\* the sheet name or the section in force gives
Place ==
  /\ ~arg.set
  /\ \E parser_cls \in SingleCounterparty, direction \in {"None", "Prihod", "Rashod"},
        date_val \in PartyDates, debit \in PartyAmounts, credit \in PartyAmounts,
        op_type \in PartyTypes, counterparty \in PartyNames, iin \in PartyIins :
       /\ arg' = [set |-> TRUE, parser_cls |-> parser_cls, direction |-> direction,
                  date_val |-> date_val, debit |-> debit, credit |-> credit,
                  op_type |-> op_type, counterparty |-> counterparty, iin |-> iin]
       /\ ret' = CASE parser_cls = "TsesnabankParser" ->
                        Tsesnabank_counterparty(direction, date_val, credit, counterparty, iin)
                   [] parser_cls = "EurasianStatementParser" ->
                        EurasianStatement_counterparty(date_val, debit, credit, op_type,
                                                       counterparty, iin)
                   [] parser_cls = "NurbankXlsParser" ->
                        NurbankXls_counterparty(date_val, debit, credit, counterparty, iin)
                   [] parser_cls = "KassaNovaParser" ->
                        KassaNova_counterparty(direction, date_val, counterparty, iin, credit)
  /\ UNCHANGED <<dFile, dOut, batch, upload>>

NextParty == Place

SpecParty == InitParty /\ [][NextParty]_vars

\* the row was emitted as a transaction
PartyEmitted == arg.set /\ ~ret.skip /\ ~ret.raised

PayerSide(t) == t.payer # "" \/ t.payer_iin_bin.some

RecipientSide(t) == t.recipient # "" \/ t.recipient_iin_bin.some

\* C28: in the four single-counterparty extractors the name and the
\* identification number of the counterparty are on the payer side only in
\* an income transaction, where they are the cleaned cells, on the recipient
\* side only in an expense transaction, never on both sides, and on neither
\* side when the direction is unknown.
C28_CounterpartyByDirection ==
  PartyEmitted =>
    /\ ret.t.direction \in {"Prihod", "Rashod", "None"}
    /\ PayerSide(ret.t) => ret.t.direction = "Prihod"
    /\ RecipientSide(ret.t) => ret.t.direction = "Rashod"
    /\ ~(PayerSide(ret.t) /\ RecipientSide(ret.t))
    /\ ret.t.direction = "Prihod" =>
         /\ ret.t.payer = clean_string(arg.counterparty)
         /\ ret.t.payer_iin_bin = iin_of(arg.iin)
    /\ ret.t.direction = "Rashod" =>
         /\ ret.t.recipient = clean_string(arg.counterparty)
         /\ ret.t.recipient_iin_bin = iin_of(arg.iin)
    /\ ret.t.direction = "None" => ~PayerSide(ret.t) /\ ~RecipientSide(ret.t)

\* C28 witness: an income row of EurasianStatementParser, its direction taken
\* from the operation type, with the name and the number on the payer side
C28_IncomeWitness ==
  /\ PartyEmitted /\ arg.parser_cls = "EurasianStatementParser"
  /\ arg.debit = NoneCell /\ arg.credit = NoneCell
  /\ ret.t.direction = "Prihod"
  /\ ret.t.payer = "Acme LLC"
  /\ ret.t.payer_iin_bin = Some(<<Digits(<<0, 0, 0, 0, 0, 0, 0, 0, 1, 4, 0, 4>>)>>)
  /\ ~RecipientSide(ret.t)

\* C28 witness: an expense row of NurbankXlsParser with the name and the
\* number on the recipient side
C28_ExpenseWitness ==
  /\ PartyEmitted /\ arg.parser_cls = "NurbankXlsParser"
  /\ ret.t.direction = "Rashod"
  /\ ret.t.recipient = "Acme LLC"
  /\ ret.t.recipient_iin_bin = Some(<<Digits(<<8, 8, 0, 1, 0, 1, 3, 0, 0, 1, 2, 3>>)>>)
  /\ ~PayerSide(ret.t)

\* C28 witness: a row with a counterparty and a number emitted with no
\* direction and neither side filled, by TsesnabankParser and by
\* KassaNovaParser
C28_UnknownWitness ==
  /\ PartyEmitted /\ arg.parser_cls \in {"TsesnabankParser", "KassaNovaParser"}
  /\ arg.counterparty = Txt("Acme LLC") /\ arg.iin # NoneCell
  /\ ret.t.direction = "None"
  /\ ~PayerSide(ret.t) /\ ~RecipientSide(ret.t)

\* C28 witness: a KassaNovaParser row read under the expense section whose
\* name cell says 'Входящие' is an income row
C28_SectionWitness ==
  /\ PartyEmitted /\ arg.parser_cls = "KassaNovaParser"
  /\ arg.direction = "Rashod" /\ ret.t.direction = "Prihod"
  /\ ret.t.payer = "Vhodyashchie platezhi"

-----------------------------------------------------------------------------
(* Legacy loader: bank_statement_loader.BankStatementLoader and             *)
(* load_and_export.  A file is given by what the loader observes of it: it  *)
(* exists or not, its extension, the first parser class whose can_parse     *)
(* accepts it ("None" when there is none), whether parse() raises, and the  *)
(* transactions parse() returns.                                           *)

LegacyFile(name, exists, extension, parser_class, parse_raises, transactions) ==
  [name |-> name, exists |-> exists, extension |-> extension, parser_class |-> parser_class,
   parse_raises |-> parse_raises, transactions |-> transactions]

\* the files a directory may hold: the pattern '**/*.xls*' also matches the
\* extension .xlsm, which detect_bank rejects
LegacyFiles ==
  { LegacyFile("a.xlsx", TRUE, ".xlsx", "KaspiParser", FALSE, <<"a1", "a2">>),
    LegacyFile("b.xls", TRUE, ".xls", "HalykParser", FALSE, <<"b1">>),
    LegacyFile("empty.xlsx", TRUE, ".xlsx", "KaspiParser", FALSE, <<>>),
    LegacyFile("macro.xlsm", TRUE, ".xlsm", "None", FALSE, <<>>),
    LegacyFile("unknown.xlsx", TRUE, ".xlsx", "None", FALSE, <<>>),
    LegacyFile("broken.xlsx", TRUE, ".xlsx", "HalykParser", TRUE, <<>>),
    LegacyFile("gone.xlsx", FALSE, ".xlsx", "None", FALSE, <<>>) }

\* files of a directory
MaxLegacyFiles == 3

\* BankStatementLoader.__init__
BankStatementLoader == [last_metadata |-> "None", last_transactions |-> <<>>]

\* detect_bank raises: the file does not exist or has an unsupported extension
detect_bank_raises(file) == ~file.exists \/ file.extension \notin {".xlsx", ".xls"}

\* detect_bank: the first parser class whose can_parse accepts the file
detect_bank(file) == file.parser_class

\* the StatementMetadata parse() returns
StatementMetadata(file) == [bank_name |-> file.parser_class, source_file |-> file.name]

\* load with last_transactions extended instead of replaced
load_extending(self, file) ==
  IF detect_bank_raises(file) \/ detect_bank(file) = "None" \/ file.parse_raises
    THEN [raised |-> TRUE, self |-> self, metadata |-> "None", transactions |-> <<>>]
    ELSE [raised |-> FALSE,
          self |-> [last_metadata |-> StatementMetadata(file),
                    last_transactions |-> self.last_transactions \o file.transactions],
          metadata |-> StatementMetadata(file), transactions |-> file.transactions]

\* load: the exception it raises, or the loader after it with the pair it
\* returns
load(self, file) ==
  IF detect_bank_raises(file) \/ detect_bank(file) = "None" \/ file.parse_raises
    THEN [raised |-> TRUE, self |-> self, metadata |-> "None", transactions |-> <<>>]
    ELSE [raised |-> FALSE,
          self |-> [last_metadata |-> StatementMetadata(file),
                    last_transactions |-> file.transactions],
          metadata |-> StatementMetadata(file), transactions |-> file.transactions]

InitLoader == arg = Idle /\ ret = Idle /\ dFile = NoFile /\ dOut = NoDetect /\ BatchIdle /\ UploadIdle

\* load_and_export called: a new loader; input_path is a directory holding
\* the files, or one file
LoadAndExport ==
  /\ ~arg.set
  /\ \E is_dir \in BOOLEAN, file_paths \in SeqsUpTo(LegacyFiles, MaxLegacyFiles) :
       /\ is_dir \/ Len(file_paths) = 1
       /\ arg' = [set |-> TRUE, is_dir |-> is_dir, files |-> file_paths]
       /\ ret' = [pc |-> IF is_dir THEN "load_multiple" ELSE "load", i |-> 1,
                  self |-> BankStatementLoader, all_metadata |-> <<>>,
                  all_transactions |-> <<>>, returned |-> FALSE,
                  exported |-> "None", raised_in |-> "None"]
  /\ UNCHANGED <<dFile, dOut, batch, upload>>

\* load_multiple, one pass of the loop: load in a try, the exception printed
LoadMultipleStep ==
  /\ arg.set /\ ret.pc = "load_multiple" /\ ret.i <= Len(arg.files)
  /\ LET out == load(ret.self, arg.files[ret.i]) IN
     ret' = IF out.raised THEN [ret EXCEPT !.i = @ + 1]
            ELSE [ret EXCEPT !.i = @ + 1, !.self = out.self,
                             !.all_metadata = Append(@, out.metadata),
                             !.all_transactions = @ \o out.transactions]
  /\ UNCHANGED <<arg, dFile, dOut, batch, upload>>

\* load_multiple returns; load_directory returns its value and
\* load_and_export goes on to export_to_excel
LoadMultipleReturn ==
  /\ arg.set /\ ret.pc = "load_multiple" /\ ret.i > Len(arg.files)
  /\ ret' = [ret EXCEPT !.pc = "export", !.returned = TRUE]
  /\ UNCHANGED <<arg, dFile, dOut, batch, upload>>

\* load_and_export on one file: loader.load outside any try
LoadSingle ==
  /\ arg.set /\ ret.pc = "load"
  /\ LET out == load(ret.self, arg.files[1]) IN
     ret' = IF out.raised THEN [ret EXCEPT !.pc = "raised", !.raised_in = "load"]
            ELSE [ret EXCEPT !.pc = "export", !.self = out.self]
  /\ UNCHANGED <<arg, dFile, dOut, batch, upload>>

\* export_to_excel(output_path): transactions defaults to last_transactions,
\* an empty frame raises, the metadata sheet is the one of last_metadata
ExportToExcel ==
  /\ arg.set /\ ret.pc = "export"
  /\ ret' = IF ret.self.last_transactions = <<>>
              THEN [ret EXCEPT !.pc = "raised", !.raised_in = "export_to_excel"]
              ELSE [ret EXCEPT !.pc = "done",
                               !.exported = [transactions |-> ret.self.last_transactions,
                                             metadata |-> ret.self.last_metadata]]
  /\ UNCHANGED <<arg, dFile, dOut, batch, upload>>

NextLoader ==
  LoadAndExport \/ LoadMultipleStep \/ LoadMultipleReturn \/ LoadSingle \/ ExportToExcel

SpecLoader == InitLoader /\ [][NextLoader]_vars

\* the file loads without error
Loads(file) ==
  /\ file.exists /\ file.extension \in {".xlsx", ".xls"}
  /\ file.parser_class # "None" /\ ~file.parse_raises

\* the transactions of the files that load, in file order
RECURSIVE LoadedTransactions(_)
LoadedTransactions(file_paths) ==
  IF file_paths = <<>> THEN <<>>
  ELSE (IF Loads(Head(file_paths)) THEN Head(file_paths).transactions ELSE <<>>)
         \o LoadedTransactions(Tail(file_paths))

\* the position of the last file that loads, 0 when there is none
LastLoaded(file_paths) ==
  IF \E k \in 1..Len(file_paths) : Loads(file_paths[k])
    THEN CHOOSE k \in 1..Len(file_paths) :
           Loads(file_paths[k]) /\ \A j \in (k + 1)..Len(file_paths) : ~Loads(file_paths[j])
    ELSE 0

\* the files load_multiple has gone through
Done == SubSeq(arg.files, 1, ret.i - 1)

\* C30: load_multiple never raises and returns the metadata and the
\* concatenated transactions of the files that loaded, in order; after every
\* file last_transactions and last_metadata are those of the last file that
\* loaded (the initial ones when none did); export_to_excel without a list,
\* when it writes, writes the transactions and the metadata of that last
\* file only.
C30_LegacyLoaderState ==
  (arg.set /\ arg.is_dir) =>
    /\ ret.raised_in \in {"None", "export_to_excel"}
    /\ ret.all_transactions = LoadedTransactions(Done)
    /\ Len(ret.all_metadata) = Cardinality({k \in 1..Len(Done) : Loads(Done[k])})
    /\ ret.returned => ret.i = Len(arg.files) + 1
    /\ IF LastLoaded(Done) = 0
         THEN ret.self = BankStatementLoader
         ELSE /\ ret.self.last_transactions = Done[LastLoaded(Done)].transactions
              /\ ret.self.last_metadata = StatementMetadata(Done[LastLoaded(Done)])
              /\ ret.all_metadata[Len(ret.all_metadata)] = ret.self.last_metadata
    /\ ret.pc = "done" =>
         /\ ret.exported.transactions = arg.files[LastLoaded(arg.files)].transactions
         /\ ret.exported.metadata = StatementMetadata(arg.files[LastLoaded(arg.files)])
    /\ (ret.pc = "raised") <=>
         (ret.returned /\ ret.raised_in = "export_to_excel"
            /\ (LastLoaded(arg.files) = 0
                  \/ arg.files[LastLoaded(arg.files)].transactions = <<>>))

\* C30 witness: a directory of two statements and a file that fails between
\* them: three transactions returned, the export holds the last file's one
C30_LastFileOnlyWitness ==
  /\ arg.set /\ arg.is_dir /\ ret.pc = "done"
  /\ Len(arg.files) = 3 /\ Loads(arg.files[1]) /\ ~Loads(arg.files[2]) /\ Loads(arg.files[3])
  /\ ret.all_transactions = <<"a1", "a2", "b1">>
  /\ ret.exported.transactions = <<"b1">>
  /\ ret.exported.metadata.source_file = "b.xls"

\* C30 witness: the last file fails, the export is the one of the file
\* loaded before it
C30_FailingLastWitness ==
  /\ arg.set /\ arg.is_dir /\ ret.pc = "done"
  /\ Len(arg.files) = 3 /\ ~Loads(arg.files[3])
  /\ ret.all_transactions = <<"b1", "a1", "a2">>
  /\ ret.exported.transactions = <<"a1", "a2">>

\* C30 witness: the last file that loaded has no transaction: the export
\* raises although load_multiple returned transactions
C30_NothingToExportWitness ==
  /\ arg.set /\ arg.is_dir /\ ret.pc = "raised"
  /\ ret.all_transactions # <<>>
  /\ ret.self.last_transactions = <<>>

-----------------------------------------------------------------------------
(* BCCFullParser.parse_sheet: a sheet that holds several header rows, one   *)
(* block of data rows under each                                           *)

BCCFull_BANK_NAME == "AO Bank CentrKredit"

\* the test that makes a row a header row
BCCFull_is_header(row) ==
  \/ RowHas(row, "data operacii") /\ (RowHas(row, "otpravitel'") \/ RowHas(row, "poluchatel'"))
  \/ RowHas(row, "kuenih / data")
  \/ RowHas(row, "data") /\ RowHas(row, "debetovyj oborot")

\* header_indices, 1-based, in increasing order
BCCFull_header_indices(rows) ==
  SelectSeq([i \in 1..Len(rows) |-> i], LAMBDA i : BCCFull_is_header(rows[i]))

BCCFull_label(h) ==
  IF THas(h, "data") THEN <<"date", "default">>
  ELSE IF THas(h, "valyuta") THEN <<"currency", "set">>
  ELSE IF THas(h, "summa operacii") THEN <<"amount", "set">>
  ELSE IF THas(h, "summa po kursu") \/ THas(h, "kurs nb") THEN <<"amount_tenge", "set">>
  ELSE IF THas(h, "otpravitel'") THEN <<"sender", "set">>
  ELSE IF THas(h, "poluchatel'") \/ THas(h, "naimenovanie kontragenta")
    THEN <<"recipient", "set">>
  ELSE IF THas(h, "naznachenie") \/ THas(h, "toelem maqsaty") THEN <<"purpose", "set">>
  ELSE IF THas(h, "debetovyj oborot") \/ (THas(h, "debet") /\ ~THas(h, "kredit"))
    THEN <<"debit", "set">>
  ELSE IF THas(h, "kreditovyj oborot") \/ (THas(h, "kredit") /\ ~THas(h, "debet"))
    THEN <<"credit", "set">>
  ELSE IF THas(h, "iin") /\ THas(h, "bin") THEN <<"iin", "set">>
  ELSE IF THas(h, "No dokumenta") \/ THas(h, "quuzhat") THEN <<"doc_number", "set">>
  ELSE IF THas(h, "bank korresp") \/ THas(h, "korresp. bank") THEN <<"corr_bank", "set">>
  ELSE IF THas(h, "schet-korrespondent") \/ THas(h, "korresp. esepshoty")
    THEN <<"corr_account", "set">>
  ELSE IF THas(h, "knp") \/ THas(h, "tmk") THEN <<"knp", "set">>
  ELSE <<"other", "set">>

\* col_map of a header row
BCCFull_col_map(header) == [i \in 1..Len(header) |-> BCCFull_label(header[i])]

\* the last account number in the cells of rows[from..to], "None" without one
LastAccount(rows, from, to) ==
  LET cells == Cells(SubSeq(rows, from, to))
      found == {i \in 1..Len(cells) :
                  Truthy(cells[i]) /\ cells[i].k = "txt" /\ Iban22Of(cells[i].p) # "None"}
  IN IF found = {} THEN "None"
     ELSE Iban22Of(cells[CHOOSE i \in found : \A j \in found : j <= i].p)

\* block_account: search_start is the previous header, or the top of the
\* sheet for the first block
BCCFull_block_account(rows, header_indices, block_idx) ==
  LastAccount(rows, IF block_idx > 1 THEN header_indices[block_idx - 1] ELSE 1,
              header_indices[block_idx] - 1)

\* end_idx: the next header, or the end of the sheet
BCCFull_end_idx(rows, header_indices, block_idx) ==
  IF block_idx + 1 <= Len(header_indices) THEN header_indices[block_idx + 1]
  ELSE Len(rows) + 1

\* the amount, the amount in tenge and the direction of a data row
BCCFull_amount(amount, debit, credit) == IF Nonzero(amount) THEN amount ELSE Or(credit, debit)

BCCFull_direction(debit, credit) ==
  IF Nonzero(debit) \/ Nonzero(credit)
    THEN determine_direction(AsCell(debit), AsCell(credit), "", "")
    ELSE "None"

\* one pass of the loop over the data rows of a block
BCCFull_row(row, lab, account_number) ==
  LET date_val == _get(row, ColOf(lab, "date"))
      amount_cell == _get(row, ColOf(lab, "amount"))
      debit_cell == _get(row, ColOf(lab, "debit"))
      credit_cell == _get(row, ColOf(lab, "credit"))
      tenge_cell == _get(row, ColOf(lab, "amount_tenge"))
  IN
  IF \/ AllNone(row) \/ date_val.k = "none"
     \/ date_val.k = "txt" /\ date_val.p = ""
     \/ Has(date_val, "itogo") \/ Has(date_val, "vypiska") \/ Has(date_val, "barlyghy")
    THEN RowSkip
  ELSE IF \/ normalize_amount_raises(amount_cell) \/ normalize_amount_raises(debit_cell)
          \/ normalize_amount_raises(credit_cell) \/ normalize_amount_raises(tenge_cell)
    THEN RowRaise
  ELSE RowEmit(Transaction(
         normalize_date(date_val),
         BCCFull_amount(normalize_amount(amount_cell), normalize_amount(debit_cell),
                        normalize_amount(credit_cell)),
         Or(normalize_amount(tenge_cell),
            BCCFull_amount(normalize_amount(amount_cell), normalize_amount(debit_cell),
                           normalize_amount(credit_cell))),
         BCCFull_direction(normalize_amount(debit_cell), normalize_amount(credit_cell)),
         BCCFull_BANK_NAME, account_number))

\* account_number after `if not account_number: account_number = block_account`
BCCFull_account(account_number, block_account) ==
  IF account_number = "None" THEN block_account ELSE account_number

\* the rows header_idx+1 .. end_idx-1 read under the column map lab
BCCFull_data_rows(rows, header_idx, end_idx, lab, account_number) ==
  [r \in 1..(end_idx - header_idx - 1) |->
     BCCFull_row(rows[header_idx + r], lab, account_number)]

\* one block: account_number is the one after `if not account_number:
\* account_number = block_account`, the rows carry `block_account or
\* account_number`
BCCFull_block(rows, header_indices, block_idx, block_account, account_number) ==
  BCCFull_data_rows(rows, header_indices[block_idx],
                    BCCFull_end_idx(rows, header_indices, block_idx),
                    BCCFull_col_map(rows[header_indices[block_idx]]),
                    IF block_account # "None" THEN block_account ELSE account_number)

\* one pass of the loop over the blocks
BCCFull_after_block(rows, header_indices, block_idx, acc, block_account) ==
  [account_number |-> BCCFull_account(acc.account_number, block_account),
   outcomes |-> acc.outcomes \o
                  BCCFull_block(rows, header_indices, block_idx, block_account,
                                BCCFull_account(acc.account_number, block_account))]

\* the loop over the blocks from block_idx on: the outcomes of the rows read
\* so far and account_number
RECURSIVE BCCFull_blocks(_, _, _, _)
BCCFull_blocks(rows, header_indices, block_idx, acc) ==
  IF block_idx > Len(header_indices) THEN acc
  ELSE BCCFull_blocks(rows, header_indices, block_idx + 1,
         BCCFull_after_block(rows, header_indices, block_idx, acc,
                             BCCFull_block_account(rows, header_indices, block_idx)))

BCCFull_return(acc) == RowLoop(acc.outcomes, acc.account_number, <<>>)

\* parse_sheet once header_indices is known
BCCFull_with_headers(rows, header_indices) ==
  IF header_indices = <<>>
    THEN Returned(<<>>, "None", <<>>, <<"Header not found">>)
    ELSE BCCFull_return(BCCFull_blocks(rows, header_indices, 1,
                                       [account_number |-> "None", outcomes |-> <<>>]))

BCCFull_parse_sheet(sheet, file_info) ==
  BCCFull_with_headers(sheet.rows, BCCFull_header_indices(sheet.rows))

\* ---- sheets of several blocks ----

H_BccFull ==
  TxtRow(<<"Data operacii", "Summa operacii", "Valyuta", "Otpravitel'", "Poluchatel'",
           "Naznachenie platezha">>)

H_BccTurnover ==
  TxtRow(<<"Kuenih / Data", "Debetovyj oborot", "Kreditovyj oborot", "Naznachenie platezha">>)
    \o Blank(2)

BccHeaders == {H_BccFull, H_BccTurnover}

\* the rows above a header: none, or a row that names the account
BccPreambles ==
  { <<>>,
    <<[Blank(6) EXCEPT ![1] = Txt("KZ123456789012345678")]>>,
    <<[Blank(6) EXCEPT ![2] = Txt("KZ72551N129228750KZT")]>> }

\* data rows: an amount or debit, a credit, a total, a row whose fourth cell
\* is the account of the counterparty
BccRows ==
  { [Blank(6) EXCEPT ![1] = Dt(1), ![2] = Num(100)],
    [Blank(6) EXCEPT ![1] = Dt(2), ![3] = Num(200)],
    [Blank(6) EXCEPT ![1] = Txt("Itogo"), ![2] = Num(300)],
    [Blank(6) EXCEPT ![1] = Dt(3), ![2] = Num(100), ![4] = Txt("KZ98765432109876543210AB")] }

\* header rows per sheet
MaxBlocks == 2

\* data rows per block
MaxBlockRows == 2

\* a block: the rows above the header, the header, the data rows
BccBlocks ==
  {pre \o <<h>> \o data : pre \in BccPreambles, h \in BccHeaders,
                          data \in SeqsUpTo(BccRows, MaxBlockRows)}

RECURSIVE Concat(_)
Concat(ss) == IF ss = <<>> THEN <<>> ELSE Head(ss) \o Concat(Tail(ss))

InitBcc == arg = Idle /\ ret = Idle /\ dFile = NoFile /\ dOut = NoDetect /\ BatchIdle /\ UploadIdle

\* parse_sheet called on the sheet
ParseOn(sheet, file_info) ==
  /\ arg' = [set |-> TRUE, sheet |-> sheet, file_info |-> file_info]
  /\ ret' = BCCFull_parse_sheet(sheet, file_info)

\* parse_sheet on a sheet of up to MaxBlocks blocks, or on data rows
\* without any header
ParseBlocks ==
  /\ ~arg.set
  /\ \E blocks \in SeqsUpTo(BccBlocks, MaxBlocks), tail \in SeqsUpTo(BccRows, 1) :
       /\ blocks = <<>> \/ tail = <<>>
       /\ ParseOn(SheetData("Sheet1", Concat(blocks) \o tail),
                  FileInfo("vypiska.xlsx", ".xlsx", ""))
  /\ UNCHANGED <<dFile, dOut, batch, upload>>

NextBcc == ParseBlocks

SpecBcc == InitBcc /\ [][NextBcc]_vars

\* ---- the partition, row by row ----

\* the header row a row lies under: the last header row above it, 0 for a
\* row above the first header and for a header row
HeaderAbove(rows, i) ==
  IF BCCFull_is_header(rows[i]) \/ ~\E h \in 1..(i - 1) : BCCFull_is_header(rows[h]) THEN 0
  ELSE CHOOSE h \in 1..(i - 1) :
         BCCFull_is_header(rows[h]) /\ \A g \in (h + 1)..(i - 1) : ~BCCFull_is_header(rows[g])

\* the header row before the header row h, 0 for the first
HeaderBefore(rows, h) ==
  IF \E g \in 1..(h - 1) : BCCFull_is_header(rows[g])
    THEN CHOOSE g \in 1..(h - 1) :
           BCCFull_is_header(rows[g]) /\ \A f \in (g + 1)..(h - 1) : ~BCCFull_is_header(rows[f])
    ELSE 0

\* the account found in the rows that precede the header row h, from the
\* header before it on
AccountBefore(rows, h) ==
  LastAccount(rows, IF HeaderBefore(rows, h) = 0 THEN 1 ELSE HeaderBefore(rows, h), h - 1)

\* the first account found in the sheet
FirstInSheet(rows) ==
  LET cells == Cells(rows)
      found == {i \in 1..Len(cells) : cells[i].k = "txt" /\ Iban22Of(cells[i].p) # "None"}
  IN IF found = {} THEN "None"
     ELSE Iban22Of(cells[CHOOSE i \in found : \A j \in found : i <= j].p)

\* the account of the first block, up to the header row h, that has one in
\* the rows preceding its header
RECURSIVE FirstBlockAccount(_, _)
FirstBlockAccount(rows, h) ==
  IF h = 0 THEN "None"
  ELSE IF FirstBlockAccount(rows, HeaderBefore(rows, h)) # "None"
    THEN FirstBlockAccount(rows, HeaderBefore(rows, h))
  ELSE AccountBefore(rows, h)

\* the account of the block under the header row h: the one found in the
\* rows preceding h, or else the first account of the sheet (fallback
\* "sheet") or of the blocks up to this one (fallback "earlier")
BlockAccount(rows, h, fallback) ==
  IF AccountBefore(rows, h) # "None" THEN AccountBefore(rows, h)
  ELSE IF fallback = "sheet" THEN FirstInSheet(rows)
  ELSE FirstBlockAccount(rows, h)

\* row i read under the header row h above it, left out when there is none
ReadUnder(rows, i, h, fallback) ==
  IF h = 0 THEN RowSkip
  ELSE BCCFull_row(rows[i], BCCFull_col_map(rows[h]), BlockAccount(rows, h, fallback))

\* every row under a header read once with the column map of that header;
\* the header rows and the rows above the first header left out
PartitionedBy(rows, fallback) ==
  Emitted([i \in 1..Len(rows) |-> ReadUnder(rows, i, HeaderAbove(rows, i), fallback)])

\* C25: the transactions of a sheet with header rows are those of its rows
\* read once each under the last header row above them, header rows and the
\* rows above the first header left out, and each carries the account found
\* in the rows preceding the header of its block, or else the first account
\* found in the sheet.
\* Fails: a block without an account above its header takes the account of
\* an earlier block only; the first block has none to take.
C25_HeaderBlockPartition ==
  (arg.set /\ ~ret.raised /\ BCCFull_header_indices(arg.sheet.rows) # <<>>) =>
    ret.transactions = PartitionedBy(arg.sheet.rows, "sheet")

\* the part of C25 that holds: the same partition, the account of a block
\* without one being the first account found for an earlier block
C25_PartitionWithEarlierAccount ==
  (arg.set /\ ~ret.raised /\ BCCFull_header_indices(arg.sheet.rows) # <<>>) =>
    /\ ret.transactions = PartitionedBy(arg.sheet.rows, "earlier")
    /\ ret.account_number = FirstBlockAccount(arg.sheet.rows,
                              BCCFull_header_indices(arg.sheet.rows)[
                                Len(BCCFull_header_indices(arg.sheet.rows))])

\* C25 witness: two blocks under different headers, the same data row read
\* as an amount without direction under the first and as a debit under the
\* second, each with the account above its own header
C25_TwoBlocksWitness ==
  /\ arg.set /\ Len(BCCFull_header_indices(arg.sheet.rows)) = 2
  /\ Len(ret.transactions) = 2
  /\ ret.transactions[1].direction = "None" /\ ret.transactions[2].direction = "Rashod"
  /\ ret.transactions[1].amount = Some(100) /\ ret.transactions[2].amount = Some(100)
  /\ ret.transactions[1].account_number = "KZ123456789012345678"
  /\ ret.transactions[2].account_number = "KZ72551N129228750KZT"

\* C25 witness: the first block has no account above its header, the second
\* has one: the transaction of the first block carries none
C25_NoAccountWitness ==
  /\ arg.set /\ Len(BCCFull_header_indices(arg.sheet.rows)) = 2
  /\ Len(ret.transactions) >= 2
  /\ ret.transactions[1].account_number = "None"
  /\ ret.transactions[Len(ret.transactions)].account_number = "KZ123456789012345678"
  /\ ret.account_number = "KZ123456789012345678"

\* C25 witness: a sheet without a header row gives no transaction and the
\* error 'Header not found'
C25_NoHeaderWitness ==
  /\ arg.set /\ arg.sheet.rows # <<>> /\ BCCFull_header_indices(arg.sheet.rows) = <<>>
  /\ ret.transactions = <<>> /\ ret.errors = <<"Header not found">>

====
